---------------------------- MODULE Spec2Model ----------------------------
(***************************************************************************)
(* Branch inventory ledger and inter-branch transfer reservation engine    *)
(* of the DELTA point-of-sale platform (inventory/models.py,               *)
(* inventory/views.py, inventory/signals.py).                              *)
(*                                                                         *)
(* The relational store is modelled as tables, among them:                 *)
(*   stock      Stock rows,          <<part, branch>>            -> quantity*)
(*   sl         StockLocation rows,  <<part, branch, location>>  -> quantity*)
(*   movements  StockMovement rows,  in order of creation                  *)
(*   transfers  TransferRequest rows, id -> row                            *)
(* A location is the pair <<branch, code>>.  A row that does not exist is  *)
(* not in the domain of its table.                                         *)
(***************************************************************************)
EXTENDS Integers, Sequences, FiniteSets, TLC

\* ------------------------------------------------------------- bounds
MaxQty == 2          \* largest quantity a caller passes to an operation
MaxMovements == 3    \* the ledger on its own: calls start only while the log is shorter
MaxAdjustments == 1  \* with transfers: direct AddStock/RemoveStock/MoveStock calls that succeed
MaxTransfers == 2    \* number of TransferRequest rows ever created
MaxStocked == 2      \* AddStock calls made before the concurrent requests start
MaxScans == 3        \* POS scans are made while the undo stack holds fewer events
MaxTickets == 2      \* number of Ticket rows ever created

\* ------------------------------------------------------- reference data
Parts == {"P1"}
REQUIRED_BRANCH_CODES == {"OLDIND", "EX18", "ASSN"}
Branches == REQUIRED_BRANCH_CODES
DEFAULT_LOCATION_CODE == "UNASSIGNED"
Codes == {"A3", "B1", DEFAULT_LOCATION_CODE}
\* order_by("location__code"): the rank of a code in string order
CodeRank(c) == CASE c = "A3" -> 1 [] c = "B1" -> 2 [] OTHER -> 3
Locations == Branches \X Codes
NoLocation == <<"none", "none">>
get_or_create_default_location(b) == <<b, DEFAULT_LOCATION_CODE>>

VARIABLES stock, sl, movements, transfers, orders, sales, tickets, proc

\* stock, sl, movements, transfers, sales: the committed rows of Stock,
\* StockLocation, StockMovement, TransferRequest and Sale; orders: the number
\* of Order rows; tickets: the Ticket rows, id -> row.  proc: the requests
\* being served, each with its open transaction, or the sessions, each with
\* its pending chat action, cart and scanner state.
vars == <<stock, sl, movements, transfers, orders, sales, tickets, proc>>
tables == <<stock, sl, movements, transfers, orders, sales, tickets>>

\* The tables as one value, so that a handler is a function from a database
\* to a database and a rolled-back transaction leaves the value it started from.
DB == [stock |-> stock, sl |-> sl, mv |-> movements, tr |-> transfers,
       orders |-> orders, sales |-> sales]

Put(f, k, v) == [x \in (DOMAIN f) \cup {k} |-> IF x = k THEN v ELSE f[x]]
Min(a, b) == IF a < b THEN a ELSE b
Max(a, b) == IF a > b THEN a ELSE b

RECURSIVE SumOver(_, _)
SumOver(f, S) ==
    IF S = {} THEN 0
    ELSE LET k == CHOOSE x \in S : TRUE IN f[k] + SumOver(f, S \ {k})

\* StockLocation.objects.filter(part=part, branch=branch)
SLKeys(d, p, b) == {k \in DOMAIN d.sl : k[1] = p /\ k[2] = b}
LocationTotal(d, p, b) == SumOver(d.sl, SLKeys(d, p, b))
HasStock(d, p, b) == <<p, b>> \in DOMAIN d.stock
\* on-hand as a reader of the aggregate sees it (a missing row counting as 0)
OnHand(d, p, b) == IF HasStock(d, p, b) THEN d.stock[<<p, b>>] ELSE 0

\* ------------------------------------------------------------- ledger
SyncSkipsUpdate(d, p, b) ==
    LET total == LocationTotal(d, p, b) IN
    IF HasStock(d, p, b) THEN d
    ELSE IF total > 0 THEN [d EXCEPT !.stock = Put(d.stock, <<p, b>>, total)]
    ELSE d

SyncWriteAlways(d, p, b) ==
    IF HasStock(d, p, b) THEN "update"
    ELSE IF LocationTotal(d, p, b) > 0 THEN "create" ELSE "none"

\* the write sync_stock_total_from_locations performs: Stock.objects.update,
\* Stock.objects.create, or none
SyncWrite(d, p, b) ==
    LET total == LocationTotal(d, p, b) IN
    IF HasStock(d, p, b)
    THEN IF d.stock[<<p, b>>] # total THEN "update" ELSE "none"
    ELSE IF total > 0 THEN "create" ELSE "none"

sync_stock_total_from_locations(d, p, b) ==
    LET total == LocationTotal(d, p, b)
        write == SyncWrite(d, p, b)
    IN IF write = "update" THEN [d EXCEPT !.stock[<<p, b>>] = total]
       ELSE IF write = "create" THEN [d EXCEPT !.stock = Put(d.stock, <<p, b>>, total)]
       ELSE d

\* StockLocation.save() / objects.create(): the row is written and the
\* post_save receiver recomputes the aggregate.  The field validators of
\* quantity never fire on the paths below (every value written is computed
\* from a checked difference or a positive sum), so they are not modelled.
StockLocationWrite(d, p, b, loc, q) == [d EXCEPT !.sl = Put(d.sl, <<p, b, loc>>, q)]

StockLocationSave(d, p, b, loc, q) ==
    sync_stock_total_from_locations(StockLocationWrite(d, p, b, loc, q), p, b)

\* StockAdmin.save_model: the admin site writes the Stock row as the form
\* gives it, whatever the StockLocation rows hold
AdminStockEdit(d, p, b, q) == [d EXCEPT !.stock = Put(d.stock, <<p, b>>, q)]

\* signals.py: the receiver itself
sync_stock_on_stocklocation_save(d, p, b) == sync_stock_total_from_locations(d, p, b)

SeedsNothing(d, p, b, stockQty) == d
ensure_stock_locations_seeded_from_branch_stock(d, p, b, stockQty) ==
    IF stockQty <= 0 THEN d
    ELSE IF SLKeys(d, p, b) # {} THEN d
    ELSE StockLocationSave(d, p, b, get_or_create_default_location(b), stockQty)

\* "stock_row = Stock...first(); if stock_row: ensure_...(stock_row)"
SeedIfStockRow(d, p, b) ==
    IF HasStock(d, p, b)
    THEN ensure_stock_locations_seeded_from_branch_stock(d, p, b, d.stock[<<p, b>>])
    ELSE d

Movement(p, b, q, action, from, to) ==
    [part |-> p, branch |-> b, qty |-> q, action |-> action,
     from_location |-> from, to_location |-> to]

Fail(d, msg) == [d |-> d, ok |-> FALSE, msg |-> msg]
KeepsWrites(before, written) == written
\* an exception raised inside "with transaction.atomic():" undoes what the
\* block had written
RolledBack(before, written) == before
Done(d, msg) == [d |-> d, ok |-> TRUE, msg |-> msg]

SLCreateAnew(d, p, b, loc) == StockLocationSave(d, p, b, loc, 0)
\* StockLocation.objects.select_for_update().get_or_create(..., defaults={"quantity": 0})
SLGetOrCreate(d, p, b, loc) ==
    IF <<p, b, loc>> \in DOMAIN d.sl THEN d ELSE StockLocationSave(d, p, b, loc, 0)

LocationInAnyBranch(location, b) == TRUE
\* target_location.branch_id == branch.id
LocationInBranch(location, b) == location[1] = b

add_stock_to_location(d, p, b, qty, location, action) ==
    LET target == IF location = NoLocation THEN get_or_create_default_location(b) ELSE location IN
    IF qty <= 0 THEN Fail(d, "Quantity must be greater than zero.")
    ELSE IF ~LocationInBranch(target, b)
      THEN Fail(d, "Target location does not belong to the selected branch.")
    ELSE
      LET d1 == SeedIfStockRow(d, p, b)
          d2 == SLGetOrCreate(d1, p, b, target)
          d3 == StockLocationSave(d2, p, b, target, d2.sl[<<p, b, target>>] + qty)
          d4 == [d3 EXCEPT !.mv = Append(d3.mv, Movement(p, b, qty, action, NoLocation, target))]
      IN Done(sync_stock_total_from_locations(d4, p, b), "added")

RowBeforeByCode(d, k, j) == CodeRank(k[3][2]) < CodeRank(j[3][2])

\* order_by("-quantity", "location__code", "id"): k comes before j.  Two rows
\* of one (part, branch) never share a location, so the id is never consulted.
RowBefore(d, k, j) ==
    \/ d.sl[k] > d.sl[j]
    \/ d.sl[k] = d.sl[j] /\ CodeRank(k[3][2]) < CodeRank(j[3][2])

FirstRow(d, rows) == CHOOSE k \in rows : \A j \in rows \ {k} : RowBefore(d, k, j)

TakenWholeRow(rowQty, remaining) == rowQty
TakenAllRemaining(rowQty, remaining) == remaining

\* min(stock_row.quantity, remaining)
Taken(rowQty, remaining) == Min(rowQty, remaining)

\* the for-loop of remove_stock_from_locations over the rows still to visit;
\* yields the database and what remains to be taken
RECURSIVE DrainRows(_, _, _, _, _, _)
DrainRows(d, p, b, rows, remaining, action) ==
    IF rows = {} \/ remaining <= 0 THEN [d |-> d, remaining |-> remaining]
    ELSE
      LET k == FirstRow(d, rows)
          taken == Taken(d.sl[k], remaining)
          d1 == StockLocationSave(d, p, b, k[3], d.sl[k] - taken)
          d2 == [d1 EXCEPT !.mv = Append(d1.mv, Movement(p, b, taken, action, k[3], NoLocation))]
      IN DrainRows(d2, p, b, rows \ {k}, remaining - taken, action)

AllRows(base, from_location) == base
\* "if from_location: base_qs.filter(location=from_location) else: base_qs"
SelectedRows(base, from_location) ==
    IF from_location # NoLocation
    THEN {k \in base : k[3] = from_location}
    ELSE base

remove_stock_from_locations(d, p, b, qty, from_location, action) ==
    IF qty <= 0 THEN Fail(d, "Quantity must be greater than zero.")
    ELSE IF from_location # NoLocation /\ from_location[1] # b
      THEN Fail(d, "Source location does not belong to the selected branch.")
    ELSE
      LET d1 == SeedIfStockRow(d, p, b)
          base == {k \in SLKeys(d1, p, b) : d1.sl[k] > 0}
          rows == SelectedRows(base, from_location)
          r == DrainRows(d1, p, b, rows, qty, action)
      IN IF r.remaining > 0
         THEN Fail(RolledBack(d, r.d), "Insufficient stock in selected locations.")
         ELSE Done(sync_stock_total_from_locations(r.d, p, b), "removed")

move_stock_between_locations(d, p, b, qty, from_location, to_location, action) ==
    IF qty <= 0 THEN Fail(d, "Quantity must be greater than zero.")
    ELSE IF from_location = to_location
      THEN Fail(d, "Source and destination locations must be different.")
    ELSE IF from_location[1] # b \/ to_location[1] # b
      THEN Fail(d, "Both locations must belong to the selected branch.")
    ELSE
      LET d1 == SeedIfStockRow(d, p, b)
          src == <<p, b, from_location>>
      IN IF src \notin DOMAIN d1.sl \/ d1.sl[src] < qty
         THEN Fail(RolledBack(d, d1), "Insufficient stock in source location.")
         ELSE
           LET d2 == SLGetOrCreate(d1, p, b, to_location)
               d3 == StockLocationSave(d2, p, b, from_location, d2.sl[src] - qty)
               d4 == StockLocationSave(d3, p, b, to_location, d3.sl[<<p, b, to_location>>] + qty)
               d5 == [d4 EXCEPT !.mv = Append(d4.mv, Movement(p, b, qty, action, from_location, to_location))]
           IN Done(sync_stock_total_from_locations(d5, p, b), "moved")


\* ------------------------------------------------------ actors, reasons
NoUser == "none"
NoBranch == "none"
\* a user with the profile the permission helpers read
Users == { [name |-> "admin", role |-> "admin",   branch |-> NoBranch],
           [name |-> "mgrO",  role |-> "manager", branch |-> "OLDIND"],
           [name |-> "mgrE",  role |-> "manager", branch |-> "EX18"] }
is_admin_user(u) == u.role = "admin"
Admin == CHOOSE u \in Users : u.name = "admin"
\* _active_branch_for_request: the session's branch for an admin, the
\* profile's branch for everybody else
ActiveBranches(u) == IF is_admin_user(u) THEN Branches ELSE {u.branch}
\* request.POST reason values and what .strip() makes of them
Reasons == {" ", "ok"}
StripNothing(s) == s
\* (request.POST.get("reason") or "").strip()
Strip(s) == IF s \in {"", " ", "  "} THEN "" ELSE s

\* ------------------------------------------------- availability calculator
ActiveStatusesWithoutApproved == {"picked_up", "delivered"}
ActiveStatuses == {"approved", "picked_up", "delivered"}

_reserved_quantity_for_part_branch(d, p, b, exclude_transfer_id) ==
    LET ids == {i \in DOMAIN d.tr :
                  /\ d.tr[i].part = p
                  /\ d.tr[i].source_branch = b
                  /\ d.tr[i].status \in ActiveStatuses
                  /\ i # exclude_transfer_id}
    IN SumOver([i \in DOMAIN d.tr |-> d.tr[i].reserved_quantity], ids)

AvailableIgnoresReservations(d, p, b, exclude_transfer_id) == d.stock[<<p, b>>]

\* on a Stock row that exists
_available_stock_quantity(d, p, b, exclude_transfer_id) ==
    Max(d.stock[<<p, b>>] - _reserved_quantity_for_part_branch(d, p, b, exclude_transfer_id), 0)

NoTransfer == 0

\* the status each lifecycle view demands of the locked row
ApproveFromAlsoRejected == {"requested", "rejected"}
ApproveFrom == {"requested"}
RejectFromAlsoPickedUp == {"requested", "approved", "picked_up"}
RejectFrom == {"requested", "approved"}
PickUpFromAlsoRequested == {"requested", "approved"}
PickUpFrom == {"approved"}
DeliverFrom == {"picked_up"}
ReceiveFrom == {"delivered"}

\* ------------------------------------------------------------ POS checkout
_can_use_pos(u) == is_admin_user(u) \/ u.role \in {"cashier", "manager"}

is_manager(u) == u.role \in {"manager", "admin"}
\* _stock_scope_for_user(user).filter(branch=active_branch)
InStockScope(u, b) == is_manager(u) \/ (u.branch # NoBranch /\ u.branch = b)

\* _get_cart: the lines of the session's cart, in the order they were put
\* in, the lines of quantity 0 or less dropped; a cart of one line
OneLine(p, qty) == IF qty <= 0 THEN <<>> ELSE <<[part |-> p, qty |-> qty]>>

LineFitsAlways(d, active, line) == TRUE
\* available_qty < qty puts the line among insufficient_items
LineFits(d, active, line) ==
    ~(_available_stock_quantity(d, line.part, active, NoTransfer) < line.qty)

Sale(order, p, b, qty) ==
    [order |-> order, part |-> p, branch |-> b, quantity |-> qty, is_refunded |-> FALSE]

\* the loop over cart.items(): seed, remove_stock_from_locations, Sale.objects.create
RECURSIVE SellLines(_, _, _, _)
SellLines(d, active, cart, order) ==
    IF cart = <<>> THEN Done(d, "Sale completed.")
    ELSE LET line == Head(cart)
             d1 == SeedIfStockRow(d, line.part, active)
             r == remove_stock_from_locations(d1, line.part, active, line.qty, NoLocation, "sale_out")
         IN IF ~r.ok THEN Fail(d, r.msg)
            ELSE SellLines([r.d EXCEPT !.sales = Put(@, Cardinality(DOMAIN @) + 1,
                                                     Sale(order, line.part, active, line.qty))],
                           active, Tail(cart), order)

\* finalize_order: cart is the sequence of lines [part, qty] of Stock rows of
\* the active branch
finalize_order(d, u, active, cart) ==
    IF ~_can_use_pos(u) THEN Fail(d, "Your role is not allowed to checkout POS sales.")
    ELSE IF cart = <<>> THEN Fail(d, "Cart is empty.")
    ELSE IF \E i \in 1 .. Len(cart) :
               ~(HasStock(d, cart[i].part, active) /\ InStockScope(u, active))
      THEN Fail(d, "Some cart items are no longer available for your account.")
    ELSE IF \E i \in 1 .. Len(cart) : ~LineFits(d, active, cart[i])
      THEN Fail(d, "Not enough stock")
    ELSE
      LET r == SellLines([d EXCEPT !.orders = @ + 1], active, cart, d.orders + 1)
      IN IF r.ok THEN r ELSE Fail(RolledBack(d, r.d), r.msg)

\* the finalize_order request of a session whose cart was filled from the
\* Stock rows of cart_branch: what it makes of the database, and the session's
\* cart after it.  A line whose row the filter on the active branch does not
\* return is dropped from the cart; the cart is set to {} after the block
\* committed; an exception leaves the session as it was.
CheckoutRequest(d, u, active, cart_branch, cart) ==
    LET InMap(line) == /\ cart_branch = active
                       /\ HasStock(d, line.part, active)
                       /\ InStockScope(u, active)
        kept == SelectSeq(cart, InMap)
        r == finalize_order(d, u, active, cart)
    IN IF ~_can_use_pos(u)
       THEN [d |-> d, ok |-> FALSE, cart |-> cart,
             msg |-> "Your role is not allowed to checkout POS sales."]
       ELSE IF cart = <<>> THEN [d |-> d, ok |-> FALSE, cart |-> cart, msg |-> "Cart is empty."]
       ELSE IF kept # cart
         THEN [d |-> d, ok |-> FALSE, cart |-> kept,
               msg |-> "Some cart items are no longer available for your account."]
       ELSE [d |-> r.d, ok |-> r.ok, cart |-> IF r.ok THEN <<>> ELSE cart, msg |-> r.msg]

NoSale == 0
RefundedNever(sale) == FALSE
\* if locked_sale.is_refunded: "Sale is already refunded."
Refunded(sale) == sale.is_refunded

\* refund_sale: manager_required, the sale of the active branch, a reason;
\* under the lock of the Sale row the flag is set and the quantity put back
\* into the default location of the sale's branch
refund_sale(d, u, active, sid, reason) ==
    IF ~is_manager(u) THEN Fail(d, "login")
    ELSE IF sid \notin DOMAIN d.sales THEN Fail(d, "404")
    ELSE LET sale == d.sales[sid] IN
    IF sale.branch # active
      THEN Fail(d, "You can refund sales only for the active branch.")
    ELSE IF Strip(reason) = "" THEN Fail(d, "Refund reason is required.")
    ELSE IF Refunded(sale) THEN Fail(d, "Sale is already refunded.")
    ELSE
      LET d1 == [d EXCEPT !.sales[sid].is_refunded = TRUE]
          \* Stock.objects.select_for_update().get_or_create(defaults quantity 0)
          d2 == IF HasStock(d1, sale.part, sale.branch) THEN d1
                ELSE [d1 EXCEPT !.stock = Put(d1.stock, <<sale.part, sale.branch>>, 0)]
          a == add_stock_to_location(d2, sale.part, sale.branch, sale.quantity,
                                     NoLocation, "refund_in")
      IN IF a.ok THEN Done(a.d, "Sale refunded and stock restored.")
         ELSE Fail(RolledBack(d, a.d), a.msg)

\* ------------------------------------------------ transfer reservation engine
_can_approve_transfer(u, t) ==
    \/ is_admin_user(u)
    \/ u.role = "manager" /\ u.branch # NoBranch /\ u.branch = t.source_branch

transfer_create(d, u, active, p, quantity, from_branch, to_branch, driver, notes) ==
    LET source_branch == IF is_admin_user(u) THEN from_branch ELSE active
        id == Cardinality(DOMAIN d.tr) + 1
    IN IF quantity <= 0 THEN Fail(d, "Quantity must be greater than 0.")
       ELSE IF source_branch = NoBranch \/ to_branch = NoBranch
         THEN Fail(d, "From and to branches are required.")
       ELSE IF source_branch = to_branch
         THEN Fail(d, "Source and destination branches must be different.")
       ELSE IF ~is_admin_user(u) /\ u.branch # NoBranch /\ source_branch # u.branch
         THEN Fail(d, "You can only request transfers from your own branch.")
       ELSE Done([d EXCEPT !.tr = Put(d.tr, id,
                    [part |-> p, quantity |-> quantity,
                     source_branch |-> source_branch, destination_branch |-> to_branch,
                     status |-> "requested", reserved_quantity |-> 0,
                     driver |-> driver, approved_at |-> FALSE,
                     rejection_reason |-> ""])],
                 "Transfer request created.")

_can_request_transfer(u) == is_admin_user(u) \/ u.role \in {"cashier", "manager"}

\* the form opened from the Stock row of (p, b)
transfer_create_from_stock(d, u, p, b, quantity, destination, notes) ==
    LET destination_branch == IF is_admin_user(u) THEN destination ELSE u.branch
        id == Cardinality(DOMAIN d.tr) + 1
    IN IF ~HasStock(d, p, b) THEN Fail(d, "404")
       ELSE IF ~_can_request_transfer(u) THEN Fail(d, "403")
       ELSE IF ~is_admin_user(u) /\ u.branch = NoBranch
         THEN Fail(d, "Your account has no branch assigned.")
       ELSE IF quantity <= 0 THEN Fail(d, "Quantity must be greater than 0.")
       ELSE IF Strip(notes) = ""
         THEN Fail(d, "Reason is required to create a transfer request.")
       ELSE IF destination_branch = NoBranch THEN Fail(d, "Destination branch is required.")
       ELSE IF destination_branch = b
         THEN Fail(d, "Source and destination branches must be different.")
       ELSE Done([d EXCEPT !.tr = Put(d.tr, id,
                    [part |-> p, quantity |-> quantity,
                     source_branch |-> b, destination_branch |-> destination_branch,
                     status |-> "requested", reserved_quantity |-> 0,
                     driver |-> NoUser, approved_at |-> FALSE,
                     rejection_reason |-> ""])],
                 "Transfer request created.")

transfer_approve(d, u, active, tid, reason) ==
    IF tid \notin DOMAIN d.tr THEN Fail(d, "404")
    ELSE LET t == d.tr[tid] IN
    IF ~_can_approve_transfer(u, t) THEN Fail(d, "You cannot approve this transfer.")
    ELSE IF t.source_branch # active
      THEN Fail(d, "The transfer source branch must match the active branch.")
    ELSE IF Strip(reason) = "" THEN Fail(d, "Reason is required for transfer approval.")
    ELSE IF t.status \notin ApproveFrom THEN Fail(d, "Transfer is no longer pending.")
    ELSE IF ~HasStock(d, t.part, t.source_branch) THEN Fail(d, "Source stock record is missing.")
    ELSE IF _available_stock_quantity(d, t.part, t.source_branch, tid) < t.quantity
      THEN Fail(d, "Insufficient available stock to reserve.")
    ELSE Done([d EXCEPT !.tr[tid].status = "approved",
                        !.tr[tid].reserved_quantity = t.quantity,
                        !.tr[tid].approved_at = TRUE,
                        !.tr[tid].rejection_reason = ""],
              "Transfer approved and stock reserved.")

transfer_reject(d, u, active, tid, reason) ==
    IF tid \notin DOMAIN d.tr THEN Fail(d, "404")
    ELSE LET t == d.tr[tid] IN
    IF ~_can_approve_transfer(u, t) THEN Fail(d, "You cannot reject this transfer.")
    ELSE IF t.source_branch # active
      THEN Fail(d, "The transfer source branch must match the active branch.")
    ELSE IF Strip(reason) = "" THEN Fail(d, "Reason is required for transfer rejection.")
    ELSE IF t.status \notin RejectFrom
      THEN Fail(d, "Transfer cannot be rejected in its current status.")
    ELSE Done([d EXCEPT !.tr[tid].status = "rejected",
                        !.tr[tid].reserved_quantity = 0,
                        !.tr[tid].rejection_reason = Strip(reason)],
              "Transfer rejected and reservation released.")

PickUpReleasesReservation(d, u, tid, reason) ==
    IF tid \notin DOMAIN d.tr THEN Fail(d, "404")
    ELSE LET t == d.tr[tid] IN
    IF ~is_admin_user(u) /\ (u.branch = NoBranch \/ u.branch # t.source_branch)
      THEN Fail(d, "You cannot mark pickup for this transfer.")
    ELSE IF Strip(reason) = "" THEN Fail(d, "Reason is required for pickup confirmation.")
    ELSE IF t.status \notin PickUpFrom THEN Fail(d, "Transfer is not in approved status.")
    ELSE Done([d EXCEPT !.tr[tid].status = "picked_up",
                        !.tr[tid].driver = u.name,
                        !.tr[tid].reserved_quantity = 0],
              "Transfer marked as picked up.")

transfer_mark_picked_up(d, u, tid, reason) ==
    IF tid \notin DOMAIN d.tr THEN Fail(d, "404")
    ELSE LET t == d.tr[tid] IN
    IF ~is_admin_user(u) /\ (u.branch = NoBranch \/ u.branch # t.source_branch)
      THEN Fail(d, "You cannot mark pickup for this transfer.")
    ELSE IF Strip(reason) = "" THEN Fail(d, "Reason is required for pickup confirmation.")
    ELSE IF t.status \notin PickUpFrom THEN Fail(d, "Transfer is not in approved status.")
    ELSE Done([d EXCEPT !.tr[tid].status = "picked_up",
                        !.tr[tid].driver = u.name],
              "Transfer marked as picked up.")

transfer_mark_delivered(d, u, tid, reason) ==
    IF tid \notin DOMAIN d.tr THEN Fail(d, "404")
    ELSE LET t == d.tr[tid] IN
    IF ~is_admin_user(u) /\ t.driver # u.name
      THEN Fail(d, "Only assigned driver can mark delivery.")
    ELSE IF Strip(reason) = "" THEN Fail(d, "Reason is required for delivery confirmation.")
    ELSE IF t.status \notin DeliverFrom THEN Fail(d, "Transfer is not in picked-up status.")
    ELSE Done([d EXCEPT !.tr[tid].status = "delivered"],
              "Transfer marked as delivered.")

SourceCoversAlways(onhand, quantity) == TRUE
\* "if source_stock.quantity < locked_transfer.quantity": the aggregate itself,
\* whatever is reserved
SourceCovers(onhand, quantity) == ~(onhand < quantity)

transfer_confirm_receive(d, u, active, tid, reason) ==
    IF tid \notin DOMAIN d.tr THEN Fail(d, "404")
    ELSE LET t == d.tr[tid] IN
    IF ~is_admin_user(u) /\ (u.branch = NoBranch \/ u.branch # t.destination_branch)
      THEN Fail(d, "You cannot confirm receiving for this transfer.")
    ELSE IF t.destination_branch # active
      THEN Fail(d, "The transfer destination branch must match the active branch.")
    ELSE IF Strip(reason) = "" THEN Fail(d, "Reason is required to confirm receiving.")
    ELSE IF t.status \notin ReceiveFrom
      THEN Fail(d, "Transfer is not ready for receiving confirmation.")
    ELSE IF ~HasStock(d, t.part, t.source_branch) THEN Fail(d, "Source stock record is missing.")
    ELSE IF ~SourceCovers(d.stock[<<t.part, t.source_branch>>], t.quantity)
      THEN Fail(d, "Source branch stock is below transfer quantity.")
    ELSE
      LET \* Stock.objects.select_for_update().get_or_create(..., defaults={"quantity": 0})
          d1 == IF HasStock(d, t.part, t.destination_branch) THEN d
                ELSE [d EXCEPT !.stock = Put(d.stock, <<t.part, t.destination_branch>>, 0)]
          d2 == ensure_stock_locations_seeded_from_branch_stock(
                    d1, t.part, t.source_branch, d.stock[<<t.part, t.source_branch>>])
          r  == remove_stock_from_locations(d2, t.part, t.source_branch, t.quantity,
                                            NoLocation, "transfer_out")
          a  == add_stock_to_location(r.d, t.part, t.destination_branch, t.quantity,
                                      NoLocation, "transfer_in")
      IN \* an exception of a ledger call leaves the view and rolls the
         \* enclosing transaction back
         IF ~r.ok THEN Fail(d, r.msg)
         ELSE IF ~a.ok THEN Fail(d, a.msg)
         ELSE Done([a.d EXCEPT !.tr[tid].status = "received",
                               !.tr[tid].reserved_quantity = 0],
                   "Transfer received and stock moved successfully.")


\* log_audit_event inside the atomic block of its caller: AuditLog.objects.create
\* records the event, or raises (a reason beyond the 255 characters of
\* AuditLog.reason on a backend that enforces the length, a lost connection)
\* and the exception leaves the block
AuditOutcomes == {"recorded", "failed"}
Audited(before, r, outcome) ==
    IF r.ok /\ outcome = "failed" THEN Fail(RolledBack(before, r.d), "audit") ELSE r

\* ------------------------------------------------------------- actions
Write(d) ==
    /\ stock' = d.stock
    /\ sl' = d.sl
    /\ movements' = d.mv
    /\ transfers' = d.tr
    /\ orders' = d.orders
    /\ sales' = d.sales
    /\ UNCHANGED tickets

\* a request served alone: its transaction commits what the handler made of
\* the database (a refused call made nothing of it)
Commit(r) == Write(r.d) /\ UNCHANGED proc

Empty == <<>>
EmptyDB == [stock |-> Empty, sl |-> Empty, mv |-> <<>>, tr |-> Empty,
            orders |-> 0, sales |-> Empty]

Procs == {1, 2}
Idle == [pc |-> "idle", op |-> "none", part |-> "none", branch |-> NoBranch,
         qty |-> 0, from_location |-> NoLocation, to_location |-> NoLocation,
         tid |-> NoTransfer, sid |-> NoSale, onhand |-> 0, start |-> EmptyDB,
         locks |-> {}, wait |-> {}, base |-> EmptyDB, out |-> EmptyDB,
         ok |-> FALSE, msg |-> "", plan |-> <<>>, step |-> 0,
         user |-> [name |-> NoUser, role |-> "none", branch |-> NoBranch],
         to_branch |-> NoBranch,
         \* the session's POS cart (Stock row -> quantity), scan repeat guard
         \* and scan undo stack
         cart |-> <<>>,
         pos_scan_repeat_guard |-> [token |-> <<"none", "none">>, awaiting_confirm |-> FALSE],
         pos_scan_undo |-> <<>>,
         \* the Ticket row a ticket_detail request fetched and the status it posts
         ticket |-> [status |-> "none", reporter |-> NoUser], status |-> ""]

\* the state after the migrations ran: no row in any table, no request
Init ==
    /\ stock = Empty
    /\ sl = Empty
    /\ movements = <<>>
    /\ transfers = Empty
    /\ orders = 0
    /\ sales = Empty
    /\ tickets = Empty
    /\ proc = [i \in Procs |-> Idle]

LogOpen == Len(movements) < MaxMovements

AddStock(p, b, qty, location) ==
    /\ LogOpen
    /\ Commit(add_stock_to_location(DB, p, b, qty, location, "add"))

Checkout(u, active, p, qty) ==
    /\ LogOpen
    /\ Commit(finalize_order(DB, u, active, OneLine(p, qty)))

RemoveStock(p, b, qty, from_location) ==
    /\ LogOpen
    /\ Commit(remove_stock_from_locations(DB, p, b, qty, from_location, "remove"))

MoveStock(p, b, qty, from_location, to_location) ==
    /\ LogOpen
    /\ Commit(move_stock_between_locations(DB, p, b, qty, from_location, to_location, "move"))

\* seed_realistic_inventory on a pair that has no row yet: an aggregate row
\* and no StockLocation row (the data of before the location ledger)
SeedStock(p, b, qty) ==
    /\ ~HasStock(DB, p, b)
    /\ SLKeys(DB, p, b) = {}
    /\ stock' = Put(stock, <<p, b>>, qty)
    /\ UNCHANGED <<sl, movements, transfers, orders, sales, tickets, proc>>

CreateTransfer(u, active, p, qty, from_branch, to_branch, driver, notes) ==
    /\ Cardinality(DOMAIN transfers) < MaxTransfers
    /\ Commit(transfer_create(DB, u, active, p, qty, from_branch, to_branch, driver, notes))

CreateTransferFromStock(u, p, b, qty, destination, notes) ==
    /\ Cardinality(DOMAIN transfers) < MaxTransfers
    /\ Commit(transfer_create_from_stock(DB, u, p, b, qty, destination, notes))

Approve(u, active, tid, reason) == Commit(transfer_approve(DB, u, active, tid, reason))
Reject(u, active, tid, reason) == Commit(transfer_reject(DB, u, active, tid, reason))
MarkPickedUp(u, tid, reason) == Commit(transfer_mark_picked_up(DB, u, tid, reason))
MarkDelivered(u, tid, reason) == Commit(transfer_mark_delivered(DB, u, tid, reason))
ConfirmReceive(u, active, tid, reason) ==
    Commit(transfer_confirm_receive(DB, u, active, tid, reason))

\* ------------------------------------------------ the ledger on its own
LedgerBranch == "OLDIND"
LedgerLocations == {NoLocation, <<"OLDIND", "A3">>, <<"OLDIND", "B1">>,
                    <<"OLDIND", DEFAULT_LOCATION_CODE>>, <<"EX18", "A3">>}
Quantities == 0 .. MaxQty

NextLedger ==
    \/ \E p \in Parts, q \in Quantities, l \in LedgerLocations :
          AddStock(p, LedgerBranch, q, l)
    \/ \E p \in Parts, q \in Quantities, l \in LedgerLocations :
          RemoveStock(p, LedgerBranch, q, l)
    \/ \E p \in Parts, q \in Quantities, f, t \in LedgerLocations \ {NoLocation} :
          MoveStock(p, LedgerBranch, q, f, t)

SpecLedger == Init /\ [][NextLedger]_vars

\* the ledger on its own, some pairs holding an aggregate from before the
\* location ledger
NextSeeded ==
    \/ NextLedger
    \/ \E p \in Parts, q \in 1 .. MaxQty : SeedStock(p, LedgerBranch, q)

SpecSeeded == Init /\ [][NextSeeded]_vars

\* --------------------------------------- ledger and transfers, one call at a time
TransferBranches == {"OLDIND", "EX18"}
SourceLocations == {NoLocation, <<"OLDIND", "A3">>}
TransferIds == 1 .. MaxTransfers
\* the users whose calls change the state below (mgrE is refused everywhere
\* on a transfer out of OLDIND, and the claims quantify over all of Users)
Callers == {u \in Users : u.name # "mgrE"}

DirectCount ==
    Cardinality({i \in 1 .. Len(movements) : movements[i].action \in {"add", "remove", "move", "sale_out"}})
AdjustOpen == DirectCount < MaxAdjustments

Next ==
    \/ \E p \in Parts, b \in Branches : SeedStock(p, b, MaxQty)
    \/ \E p \in Parts, q \in 1 .. MaxQty, l \in SourceLocations :
          AdjustOpen /\ AddStock(p, "OLDIND", q, l)
    \/ \E p \in Parts, q \in 1 .. MaxQty, l \in SourceLocations :
          AdjustOpen /\ RemoveStock(p, "OLDIND", q, l)
    \/ \E u \in Callers, p \in Parts, q \in 1 .. MaxQty :
          AdjustOpen /\ Checkout(u, "OLDIND", p, q)
    \/ \E p \in Parts, q \in 1 .. MaxQty :
          AdjustOpen /\ MoveStock(p, "OLDIND", q, <<"OLDIND", DEFAULT_LOCATION_CODE>>,
                                  <<"OLDIND", "A3">>)
    \/ \E u \in Callers : \E a \in ActiveBranches(u), p \in Parts, q \in Quantities,
          t \in TransferBranches :
          CreateTransfer(u, a, p, q, "OLDIND", t, NoUser, "ok")
    \/ \E u \in Callers, p \in Parts, q \in Quantities, t \in TransferBranches,
          n \in Reasons :
          CreateTransferFromStock(u, p, "OLDIND", q, t, n)
    \/ \E u \in Callers : \E a \in ActiveBranches(u), tid \in TransferIds, r \in Reasons :
          Approve(u, a, tid, r)
    \/ \E u \in Callers : \E a \in ActiveBranches(u), tid \in TransferIds, r \in Reasons :
          Reject(u, a, tid, r)
    \/ \E u \in Callers, tid \in TransferIds, r \in Reasons : MarkPickedUp(u, tid, r)
    \/ \E u \in Callers, tid \in TransferIds, r \in Reasons : MarkDelivered(u, tid, r)
    \/ \E u \in Callers : \E a \in ActiveBranches(u), tid \in TransferIds, r \in Reasons :
          ConfirmReceive(u, a, tid, r)

Spec == Init /\ [][Next]_vars

\* the same calls without the direct RemoveStock, with refunds, and with as
\* many direct calls as the movement log has room for: stock leaves a branch
\* through checkout and ConfirmReceive only
RefundSale(u, active, sid, reason) ==
    /\ LogOpen
    /\ Commit(refund_sale(DB, u, active, sid, reason))

NextKept ==
    \/ \E p \in Parts : SeedStock(p, "OLDIND", MaxQty)
    \/ \E p \in Parts, q \in 1 .. MaxQty, l \in SourceLocations :
          AddStock(p, "OLDIND", q, l)
    \/ \E u \in Callers, p \in Parts, q \in 1 .. MaxQty : Checkout(u, "OLDIND", p, q)
    \/ \E u \in Callers, sid \in 1 .. MaxMovements : RefundSale(u, "OLDIND", sid, "ok")
    \/ \E p \in Parts, q \in 1 .. MaxQty :
          MoveStock(p, "OLDIND", q, <<"OLDIND", DEFAULT_LOCATION_CODE>>, <<"OLDIND", "A3">>)
    \/ \E u \in Callers : \E a \in ActiveBranches(u), p \in Parts, q \in 1 .. MaxQty :
          CreateTransfer(u, a, p, q, "OLDIND", "EX18", NoUser, "ok")
    \/ \E u \in Callers : \E a \in ActiveBranches(u), tid \in TransferIds :
          Approve(u, a, tid, "ok")
    \/ \E u \in Callers : \E a \in ActiveBranches(u), tid \in TransferIds :
          Reject(u, a, tid, "ok")
    \/ \E tid \in TransferIds : MarkPickedUp(Admin, tid, "ok")
    \/ \E tid \in TransferIds : MarkDelivered(Admin, tid, "ok")
    \/ \E u \in Callers : \E a \in ActiveBranches(u), tid \in TransferIds :
          ConfirmReceive(u, a, tid, "ok")

SpecKept == Init /\ [][NextKept]_vars

\* ------------------------------------- concurrent requests, one step at a time
\* Every request runs in its own transaction (transaction.atomic).  A
\* statement reads what is committed when it runs; select_for_update waits
\* until no other open transaction holds the row; the rows a transaction
\* wrote appear to the others at its commit, which also gives up its locks.
StockKey(p, b) == [table |-> "Stock", part |-> p, branch |-> b, location |-> NoLocation, id |-> 0]
StockLocationKey(p, b, loc) ==
    [table |-> "StockLocation", part |-> p, branch |-> b, location |-> loc, id |-> 0]
TransferKey(tid) ==
    [table |-> "TransferRequest", part |-> "none", branch |-> NoBranch,
     location |-> NoLocation, id |-> tid]

SaleKey(sid) ==
    [table |-> "Sale", part |-> "none", branch |-> NoBranch, location |-> NoLocation, id |-> sid]

CanLockAlways(self, keys) == TRUE
\* select_for_update returns the rows once no other transaction holds any
CanLock(self, keys) == \A other \in Procs \ {self} : proc[other].locks \cap keys = {}

\* what a transaction that read base and made out.d of it writes at commit
\* onto the rows cur committed meanwhile: the rows it inserted or changed
Changed(base, out, k) == k \notin DOMAIN base \/ base[k] # out[k]
Merge(cur, base, out) ==
    [k \in DOMAIN cur \cup DOMAIN out |->
        IF k \in DOMAIN out /\ Changed(base, out, k) THEN out[k] ELSE cur[k]]
ApplyWrites(cur, base, out) ==
    [stock |-> Merge(cur.stock, base.stock, out.stock),
     sl |-> Merge(cur.sl, base.sl, out.sl),
     mv |-> cur.mv \o SubSeq(out.mv, Len(base.mv) + 1, Len(out.mv)),
     tr |-> Merge(cur.tr, base.tr, out.tr),
     orders |-> cur.orders + (out.orders - base.orders),
     sales |-> Merge(cur.sales, base.sales, out.sales)]

Quiet == \A i \in Procs : proc[i].pc = "idle"

\* POST stock-locations, action=remove
CallRemoveStock(self, p, b, qty, from_location) ==
    /\ proc[self].pc = "idle"
    /\ proc' = [proc EXCEPT ![self] =
                  [Idle EXCEPT !.pc = "begin", !.op = "remove", !.part = p, !.branch = b,
                               !.qty = qty, !.from_location = from_location,
                               !.onhand = OnHand(DB, p, b), !.start = DB]]
    /\ UNCHANGED tables

\* POST stock-locations, action=add
CallAddStock(self, p, b, qty, to_location) ==
    /\ proc[self].pc = "idle"
    /\ proc' = [proc EXCEPT ![self] =
                  [Idle EXCEPT !.pc = "begin", !.op = "add", !.part = p, !.branch = b,
                               !.qty = qty, !.to_location = to_location,
                               !.onhand = OnHand(DB, p, b), !.start = DB]]
    /\ UNCHANGED tables

\* POST stock-locations, action=move
CallMoveStock(self, p, b, qty, from_location, to_location) ==
    /\ proc[self].pc = "idle"
    /\ proc' = [proc EXCEPT ![self] =
                  [Idle EXCEPT !.pc = "begin", !.op = "move", !.part = p, !.branch = b,
                               !.qty = qty, !.from_location = from_location,
                               !.to_location = to_location,
                               !.onhand = OnHand(DB, p, b), !.start = DB]]
    /\ UNCHANGED tables

\* POST transfers/<tid>/approve by an admin whose active branch is the source,
\* with a reason: the checks made before the transaction let it through
CallApprove(self, tid) ==
    /\ proc[self].pc = "idle"
    /\ tid \in DOMAIN transfers
    /\ proc' = [proc EXCEPT ![self] =
                  [Idle EXCEPT !.pc = "begin", !.op = "approve", !.tid = tid,
                               !.part = transfers[tid].part,
                               !.branch = transfers[tid].source_branch,
                               !.qty = transfers[tid].quantity,
                               !.onhand = OnHand(DB, transfers[tid].part,
                                                 transfers[tid].source_branch)]]
    /\ UNCHANGED tables

LedgerOps == {"add", "remove", "move"}

\* POST sales/<sid>/refund by an admin whose active branch is the sale's,
\* with a reason: the checks made before the transaction let it through
CallRefund(self, sid) ==
    /\ proc[self].pc = "idle"
    /\ sid \in DOMAIN sales
    /\ proc' = [proc EXCEPT ![self] =
                  [Idle EXCEPT !.pc = "begin", !.op = "refund", !.sid = sid,
                               !.part = sales[sid].part, !.branch = sales[sid].branch,
                               !.qty = sales[sid].quantity,
                               !.onhand = OnHand(DB, sales[sid].part, sales[sid].branch),
                               !.start = DB]]
    /\ UNCHANGED tables

\* Sale.objects.select_for_update()...filter(id=sale_id).first()
LockSale(self) ==
    LET me == proc[self] IN
    /\ me.pc = "begin" /\ me.op = "refund"
    /\ CanLock(self, {SaleKey(me.sid)})
    /\ proc' = [proc EXCEPT ![self].pc = "row",
                            ![self].locks = @ \cup {SaleKey(me.sid)}]
    /\ UNCHANGED tables

\* TransferRequest.objects.select_for_update().filter(id=transfer_id).first()
LockTransfer(self) ==
    LET me == proc[self] IN
    /\ me.pc = "begin" /\ me.op = "approve"
    /\ CanLock(self, {TransferKey(me.tid)})
    /\ proc' = [proc EXCEPT ![self].pc = "row",
                            ![self].locks = @ \cup {TransferKey(me.tid)}]
    /\ UNCHANGED tables

\* Stock.objects.select_for_update().filter(part=..., branch=...).first();
\* transfer_approve has returned before it when the locked transfer is not
\* requested any more
LockStock(self) ==
    LET me == proc[self]
        keys == IF /\ HasStock(DB, me.part, me.branch)
                   /\ me.op = "approve" => transfers[me.tid].status \in ApproveFrom
                   /\ me.op = "refund" => ~Refunded(sales[me.sid])
                THEN {StockKey(me.part, me.branch)} ELSE {}
    IN /\ \/ me.pc = "begin" /\ me.op \in LedgerOps
          \/ me.pc = "row" /\ me.op \in {"approve", "refund"}
       /\ CanLock(self, keys)
       /\ proc' = [proc EXCEPT ![self].pc = "locked", ![self].locks = @ \cup keys]
       /\ UNCHANGED tables

\* the rows StockLocation.objects.select_for_update().filter(quantity__gt=0)
\* of remove_stock_from_locations returns
DrainKeys(d, p, b, from_location) ==
    LET d1 == SeedIfStockRow(d, p, b) IN
    {StockLocationKey(p, b, k[3]) :
        k \in {j \in SLKeys(d1, p, b) :
                 d1.sl[j] > 0 /\ (from_location # NoLocation => j[3] = from_location)}}

\* the call of a request, made on the database d
Handler(me, d) ==
    IF me.op = "remove"
    THEN remove_stock_from_locations(d, me.part, me.branch, me.qty, me.from_location, "remove")
    ELSE IF me.op = "add"
    THEN add_stock_to_location(d, me.part, me.branch, me.qty, me.to_location, "add")
    ELSE IF me.op = "move"
    THEN move_stock_between_locations(d, me.part, me.branch, me.qty, me.from_location,
                                      me.to_location, "move")
    ELSE IF me.op = "refund" THEN refund_sale(d, Admin, me.branch, me.sid, "ok")
    ELSE transfer_approve(d, Admin, me.branch, me.tid, "ok")

\* the StockLocation rows a transaction that made out of d inserted or wrote
WrittenKeys(d, out) ==
    {StockLocationKey(k[1], k[2], k[3]) : k \in {j \in DOMAIN out.sl : Changed(d.sl, out.sl, j)}}

\* the StockLocation rows the select_for_update statements of the call
\* return, and the rows it inserts (held until the transaction ends like a lock)
BodyKeys(me, d) ==
    LET selected ==
          IF me.op = "remove" THEN DrainKeys(d, me.part, me.branch, me.from_location)
          ELSE IF me.op = "move"
          THEN LET d1 == SeedIfStockRow(d, me.part, me.branch) IN
               IF <<me.part, me.branch, me.from_location>> \in DOMAIN d1.sl
               THEN {StockLocationKey(me.part, me.branch, me.from_location)} ELSE {}
          ELSE {}
    IN selected \cup (IF me.op \in LedgerOps \cup {"refund"}
                      THEN WrittenKeys(d, Handler(me, d).d) ELSE {})

\* Stock.objects.create of sync_stock_total_from_locations: the row this
\* transaction inserts, if it found none
CreatedStock(me, d) ==
    IF me.op \in LedgerOps \cup {"refund"} /\ ~HasStock(d, me.part, me.branch)
       /\ HasStock(Handler(me, d).d, me.part, me.branch)
    THEN {StockKey(me.part, me.branch)} ELSE {}

InsertAlwaysGoesThrough(self, keys) == TRUE
\* unique_together (part, branch): an INSERT of a key another open transaction
\* inserted waits for that transaction and fails with IntegrityError at its commit
InsertGoesThrough(self, keys) == \A other \in Procs \ {self} : proc[other].locks \cap keys = {}

\* the rest of the transaction, up to its last statement
Body(self) ==
    LET me == proc[self]
        keys == BodyKeys(me, DB)
        created == CreatedStock(me, DB)
        r == Handler(me, DB)
    IN /\ me.pc = "locked"
       /\ CanLock(self, keys)
       /\ proc' = IF InsertGoesThrough(self, created)
                  THEN [proc EXCEPT ![self].pc = "staged",
                                    ![self].locks = @ \cup keys \cup created,
                                    ![self].base = DB, ![self].out = r.d,
                                    ![self].ok = r.ok, ![self].msg = r.msg]
                  ELSE [proc EXCEPT ![self].pc = "staged", ![self].locks = @ \cup keys,
                                    ![self].wait = created,
                                    ![self].base = DB, ![self].out = DB,
                                    ![self].ok = FALSE, ![self].msg = "IntegrityError"]
       /\ UNCHANGED tables

\* leaving the atomic block: commit, or roll back on the exception; a
\* transaction whose INSERT waits leaves once the other transaction has ended
Finish(self) ==
    LET me == proc[self] IN
    /\ me.pc = "staged"
    /\ CanLock(self, me.wait)
    /\ Write(IF me.ok THEN ApplyWrites(DB, me.base, me.out) ELSE DB)
    /\ proc' = [proc EXCEPT ![self].pc = "done", ![self].locks = {}, ![self].wait = {},
                            ![self].base = EmptyDB, ![self].out = EmptyDB]

StockedLocations == {<<"OLDIND", "A3">>, <<"OLDIND", "B1">>}
RemoveLocations == {NoLocation, <<"OLDIND", "A3">>}

NextConc ==
    \/ \E p \in Parts, q \in 1 .. MaxQty, l \in StockedLocations :
          Quiet /\ Len(movements) < MaxStocked /\ AddStock(p, "OLDIND", q, l)
    \/ \E p \in Parts : Quiet /\ SeedStock(p, "OLDIND", MaxQty)
    \/ \E p \in Parts, q \in 1 .. MaxQty :
          Quiet /\ CreateTransfer(Admin, "OLDIND", p, q, "OLDIND", "EX18", NoUser, "ok")
    \/ \E self \in Procs, p \in Parts, q \in 1 .. MaxQty, l \in RemoveLocations :
          CallRemoveStock(self, p, "OLDIND", q, l)
    \/ \E self \in Procs, tid \in TransferIds : CallApprove(self, tid)
    \/ \E self \in Procs : LockTransfer(self)
    \/ \E self \in Procs : LockStock(self)
    \/ \E self \in Procs : Body(self)
    \/ \E self \in Procs : Finish(self)

SpecConc == Init /\ [][NextConc]_vars

\* concurrent requests to the ledger of one (part, branch)
NextRace ==
    \/ \E p \in Parts, q \in 1 .. MaxQty, l \in StockedLocations :
          Quiet /\ Len(movements) < MaxStocked /\ AddStock(p, "OLDIND", q, l)
    \/ \E p \in Parts : Quiet /\ SeedStock(p, "OLDIND", MaxQty)
    \/ \E self \in Procs, p \in Parts, q \in 1 .. MaxQty, l \in StockedLocations :
          CallAddStock(self, p, "OLDIND", q, l)
    \/ \E self \in Procs, p \in Parts, q \in 1 .. MaxQty, l \in RemoveLocations :
          CallRemoveStock(self, p, "OLDIND", q, l)
    \/ \E self \in Procs, p \in Parts, q \in 1 .. MaxQty, f, t \in StockedLocations :
          CallMoveStock(self, p, "OLDIND", q, f, t)
    \/ \E self \in Procs : LockStock(self)
    \/ \E self \in Procs : Body(self)
    \/ \E self \in Procs : Finish(self)

SpecRace == Init /\ [][NextRace]_vars

\* the point of sale of one branch: stock of two parts, part of it reserved
\* by approved transfers, carts of one or two lines, and refund requests
\* served concurrently
MaxOrders == 2
CartParts == {"P1", "P2"}
PosBranch == "OLDIND"
Cashier == [name |-> "cashO", role |-> "cashier", branch |-> "OLDIND"]
CartLines == [part : CartParts, qty : 1 .. MaxQty]
Carts == {<<l>> : l \in CartLines}
         \cup {<<l, m>> : l \in {x \in CartLines : x.part = "P1"},
                          m \in {x \in CartLines : x.part = "P2"}}

CheckoutCart(u, active, cart) ==
    /\ orders < MaxOrders
    /\ Commit(finalize_order(DB, u, active, cart))

NextPOS ==
    \/ \E p \in CartParts, q \in 1 .. MaxQty :
          /\ Quiet /\ orders = 0 /\ ~HasStock(DB, p, PosBranch)
          /\ AddStock(p, PosBranch, q, <<PosBranch, "A3">>)
    \/ \E p \in CartParts : Quiet /\ orders = 0 /\ SeedStock(p, PosBranch, MaxQty)
    \/ \E q \in 1 .. MaxQty :
          /\ Quiet /\ orders = 0 /\ transfers = Empty
          /\ CreateTransfer(Admin, PosBranch, "P1", q, PosBranch, "EX18", NoUser, "ok")
    \/ \E tid \in TransferIds : Quiet /\ orders = 0 /\ Approve(Admin, PosBranch, tid, "ok")
    \/ \E u \in {Admin, Cashier}, cart \in Carts : Quiet /\ CheckoutCart(u, PosBranch, cart)
    \/ \E self \in Procs, sid \in 1 .. MaxOrders * 2 : CallRefund(self, sid)
    \/ \E self \in Procs : LockSale(self)
    \/ \E self \in Procs : LockStock(self)
    \/ \E self \in Procs : Body(self)
    \/ \E self \in Procs : Finish(self)

SpecPOS == Init /\ [][NextPOS]_vars

\* the point of sale served one request at a time: stock of two parts, part
\* of it reserved by an approved transfer, and carts of one or two lines
NextCart ==
    \/ \E p \in CartParts, q \in 1 .. MaxQty :
          ~HasStock(DB, p, PosBranch) /\ AddStock(p, PosBranch, q, <<PosBranch, "A3">>)
    \/ \E p \in CartParts : SeedStock(p, PosBranch, MaxQty)
    \/ \E q \in 1 .. MaxQty :
          /\ transfers = Empty
          /\ CreateTransfer(Admin, PosBranch, "P1", q, PosBranch, "EX18", NoUser, "ok")
    \/ \E tid \in TransferIds : Approve(Admin, PosBranch, tid, "ok")
    \/ \E u \in {Admin, Cashier}, cart \in Carts : CheckoutCart(u, PosBranch, cart)

SpecCart == Init /\ [][NextCart]_vars

\* ------------------------------------- the statements of a request, in order
\* What each request does to the rows of a database in which every row it
\* addresses exists: a statement locks the rows its select_for_update returns
\* and reads fields of rows; the writes are left out.
Statement(locks, reads) == [locks |-> locks, reads |-> reads]
Field(keys, f) == {<<k, f>> : k \in keys}
RowsOf(p, b) == {StockLocationKey(p, b, <<b, c>>) : c \in Codes}
OtherTransfers(tid) == {TransferKey(o) : o \in TransferIds \ {tid}}

\* Stock.objects.select_for_update().filter(part, branch).first() and the
\* seeding that reads its quantity
LockStockRow(p, b) == Statement({StockKey(p, b)}, Field({StockKey(p, b)}, "quantity"))
\* sync_stock_total_from_locations: Sum over the pair's rows, Stock...first()
SyncReads(p, b) == Statement({}, Field(RowsOf(p, b) \cup {StockKey(p, b)}, "quantity"))
LockRows(keys) == Statement(keys, Field(keys, "quantity"))

AddPlanRowsFirst(p, b, loc) ==
    <<LockRows({StockLocationKey(p, b, loc)}), LockStockRow(p, b), SyncReads(p, b)>>
AddPlan(p, b, loc) ==
    <<LockStockRow(p, b), LockRows({StockLocationKey(p, b, loc)}), SyncReads(p, b)>>
RemovePlan(p, b, from_location) ==
    <<LockStockRow(p, b),
      LockRows(IF from_location = NoLocation THEN RowsOf(p, b)
               ELSE {StockLocationKey(p, b, from_location)}),
      SyncReads(p, b)>>
MovePlan(p, b, from_location, to_location) ==
    <<LockStockRow(p, b), LockRows({StockLocationKey(p, b, from_location)}),
      LockRows({StockLocationKey(p, b, to_location)}), SyncReads(p, b)>>

\* get_object_or_404(TransferRequest, id=...) and the permission checks on it
ReadTransfer(tid, f) == Statement({}, {<<TransferKey(tid), f>>})
\* TransferRequest.objects.select_for_update().filter(id=...).first() and the
\* check of its status
LockTransferRow(tid) == Statement({TransferKey(tid)}, {<<TransferKey(tid), "status">>})
\* _reserved_quantity_for_part_branch: the other transfers out of the branch
ReservedReads(tid) == Statement({}, Field(OtherTransfers(tid), "reserved_quantity"))

ApprovePlan(tid, p, source) ==
    <<ReadTransfer(tid, "source_branch"), LockTransferRow(tid), LockStockRow(p, source),
      ReservedReads(tid)>>
RejectPlan(tid) == <<ReadTransfer(tid, "source_branch"), LockTransferRow(tid)>>
PickUpPlan(tid) == <<ReadTransfer(tid, "source_branch"), LockTransferRow(tid)>>
DeliverPlan(tid) == <<ReadTransfer(tid, "driver"), LockTransferRow(tid)>>
ReceivePlan(tid, p, source, destination) ==
    <<ReadTransfer(tid, "destination_branch"), LockTransferRow(tid),
      LockStockRow(p, source), LockStockRow(p, destination)>>
    \o RemovePlan(p, source, NoLocation)
    \o AddPlan(p, destination, get_or_create_default_location(destination))

\* finalize_order of a cart of one line
CheckoutPlan(p, b) ==
    <<LockStockRow(p, b), ReservedReads(NoTransfer)>> \o RemovePlan(p, b, NoLocation)
RefundPlan(sid, p, b) ==
    <<Statement({}, {<<SaleKey(sid), "branch">>}),
      Statement({SaleKey(sid)}, {<<SaleKey(sid), "is_refunded">>}),
      LockStockRow(p, b)>>
    \o AddPlan(p, b, get_or_create_default_location(b))
\* stock_scan_apply, mode add, of a batch of two parts
ScanParts == <<"P1", "P2">>
ScanPlan(b, loc) ==
    <<Statement({StockKey(ScanParts[1], b)}, {})>> \o AddPlan(ScanParts[1], b, loc)
    \o <<Statement({StockKey(ScanParts[2], b)}, {})>> \o AddPlan(ScanParts[2], b, loc)
\* transfer_create: TransferRequest.objects.create, no row locked or read
CreatePlan == <<>>

Plans ==
    {AddPlan(p, "OLDIND", <<"OLDIND", "A3">>) : p \in Parts}
    \cup {RemovePlan(p, "OLDIND", l) : p \in Parts, l \in RemoveLocations}
    \cup {MovePlan(p, "OLDIND", <<"OLDIND", "A3">>, <<"OLDIND", "B1">>) : p \in Parts}
    \cup {ApprovePlan(1, p, "OLDIND") : p \in Parts}
    \cup {RejectPlan(1), PickUpPlan(1), DeliverPlan(1), CreatePlan}
    \cup {ReceivePlan(1, p, "OLDIND", "EX18") : p \in Parts}
    \cup {CheckoutPlan(p, "OLDIND") : p \in Parts}
    \cup {RefundPlan(1, p, "OLDIND") : p \in Parts}
    \cup {ScanPlan("OLDIND", <<"OLDIND", "A3">>)}

\* a request arrives
CallPlan(self, plan) ==
    /\ proc[self].pc = "idle"
    /\ proc' = [proc EXCEPT ![self] = [Idle EXCEPT !.pc = "plan", !.plan = plan]]
    /\ UNCHANGED tables

\* its next statement, once no other transaction holds the rows it locks
NextStatement(self) ==
    LET me == proc[self] IN
    /\ me.pc = "plan" /\ me.step < Len(me.plan)
    /\ CanLock(self, me.plan[me.step + 1].locks)
    /\ proc' = [proc EXCEPT ![self].step = @ + 1,
                            ![self].locks = @ \cup me.plan[me.step + 1].locks]
    /\ UNCHANGED tables

\* the end of its transaction gives up the locks
EndPlan(self) ==
    LET me == proc[self] IN
    /\ me.pc = "plan" /\ me.step = Len(me.plan)
    /\ proc' = [proc EXCEPT ![self].pc = "done", ![self].locks = {}]
    /\ UNCHANGED tables

NextLocks ==
    \/ \E self \in Procs, plan \in Plans : CallPlan(self, plan)
    \/ \E self \in Procs : NextStatement(self)
    \/ \E self \in Procs : EndPlan(self)

SpecLocks == Init /\ [][NextLocks]_vars

\* the same requests on a database with row locks that ends one of the
\* transactions of a wait cycle (PostgreSQL, MySQL: "deadlock detected"),
\* with transfers of one part in both directions between two branches
Waits(self) ==
    LET me == proc[self] IN
    /\ me.pc = "plan" /\ me.step < Len(me.plan)
    /\ ~CanLock(self, me.plan[me.step + 1].locks)
WaitsFor(self, other) ==
    /\ Waits(self)
    /\ proc[self].plan[proc[self].step + 1].locks \cap proc[other].locks # {}

\* the exception of the victim leaves its atomic block: rollback, locks given up
DeadlockDetected(self) ==
    /\ \E other \in Procs \ {self} : WaitsFor(self, other) /\ WaitsFor(other, self)
    /\ proc' = [proc EXCEPT ![self].pc = "aborted", ![self].locks = {}]
    /\ UNCHANGED tables

WaitPlans ==
    Plans \cup {ReceivePlan(2, p, "EX18", "OLDIND") : p \in Parts}

NextWait ==
    \/ \E self \in Procs, plan \in WaitPlans : CallPlan(self, plan)
    \/ \E self \in Procs : NextStatement(self)
    \/ \E self \in Procs : EndPlan(self)
    \/ \E self \in Procs : DeadlockDetected(self)

\* a request that can take its next step takes it
SpecWait ==
    /\ Init /\ [][NextWait]_vars
    /\ \A self \in Procs :
          /\ WF_vars(NextStatement(self))
          /\ WF_vars(EndPlan(self))
          /\ WF_vars(DeadlockDetected(self))

\* ------------------------------------- pickup and delivery, two at a time
\* transfer_mark_delivered up to "with transaction.atomic()": the transfer is
\* read without a lock, and the driver and reason checks are made on that read
CallMarkDelivered(self, u, tid, reason) ==
    /\ proc[self].pc = "idle"
    /\ tid \in DOMAIN transfers
    /\ is_admin_user(u) \/ transfers[tid].driver = u.name
    /\ Strip(reason) # ""
    /\ proc' = [proc EXCEPT ![self] =
                  [Idle EXCEPT !.pc = "begin", !.op = "deliver", !.tid = tid, !.user = u]]
    /\ UNCHANGED tables

\* transfer_mark_picked_up up to "with transaction.atomic()"
CallMarkPickedUp(self, u, tid, reason) ==
    /\ proc[self].pc = "idle"
    /\ tid \in DOMAIN transfers
    /\ is_admin_user(u) \/ (u.branch # NoBranch /\ u.branch = transfers[tid].source_branch)
    /\ Strip(reason) # ""
    /\ proc' = [proc EXCEPT ![self] =
                  [Idle EXCEPT !.pc = "begin", !.op = "pickup", !.tid = tid, !.user = u]]
    /\ UNCHANGED tables

\* the atomic block of transfer_mark_delivered: the row is locked, its status
\* checked, status and delivered_at saved
DeliverLocked(self) ==
    LET me == proc[self] IN
    /\ me.pc = "begin" /\ me.op = "deliver"
    /\ CanLock(self, {TransferKey(me.tid)})
    /\ transfers' = IF transfers[me.tid].status \in DeliverFrom
                    THEN [transfers EXCEPT ![me.tid].status = "delivered"]
                    ELSE transfers
    /\ proc' = [proc EXCEPT ![self] = Idle]
    /\ UNCHANGED <<stock, sl, movements, orders, sales, tickets>>

\* the atomic block of transfer_mark_picked_up: the row is locked, its status
\* checked, status, driver and picked_up_at saved
PickUpLocked(self) ==
    LET me == proc[self] IN
    /\ me.pc = "begin" /\ me.op = "pickup"
    /\ CanLock(self, {TransferKey(me.tid)})
    /\ transfers' = IF transfers[me.tid].status \in PickUpFrom
                    THEN [transfers EXCEPT ![me.tid].status = "picked_up",
                                           ![me.tid].driver = me.user.name]
                    ELSE transfers
    /\ proc' = [proc EXCEPT ![self] = Idle]
    /\ UNCHANGED <<stock, sl, movements, orders, sales, tickets>>

\* transfers out of OLDIND created with or without a driver and approved, and
\* pickup and delivery requests of every user served two at a time
NextCustody ==
    \/ \E p \in Parts : SeedStock(p, "OLDIND", MaxQty)
    \/ \E p \in Parts, q \in 1 .. MaxQty, driver \in {NoUser} \cup {u.name : u \in Users} :
          CreateTransfer(Admin, "OLDIND", p, q, "OLDIND", "EX18", driver, "ok")
    \/ \E tid \in TransferIds : Approve(Admin, "OLDIND", tid, "ok")
    \/ \E self \in Procs, u \in Users, tid \in TransferIds, r \in Reasons :
          CallMarkDelivered(self, u, tid, r)
    \/ \E self \in Procs, u \in Users, tid \in TransferIds, r \in Reasons :
          CallMarkPickedUp(self, u, tid, r)
    \/ \E self \in Procs : DeliverLocked(self)
    \/ \E self \in Procs : PickUpLocked(self)

SpecCustody == Init /\ [][NextCustody]_vars

\* ---------------------------------------------------- the chat assistant
WRITE_ACTIONS == {"add_stock", "remove_stock", "move_stock", "create_transfer_request"}
LedgerActions == {"add_stock", "remove_stock", "move_stock"}

validate_tool_permission(u, action, branch, to_branch) ==
    IF action = "create_transfer_request"
      THEN \/ is_admin_user(u)
           \/ u.branch # NoBranch /\ (to_branch = NoBranch \/ to_branch = u.branch)
      ELSE /\ is_manager(u)
           /\ \/ is_admin_user(u)
              \/ u.branch # NoBranch /\ (branch = NoBranch \/ branch = u.branch)

\* Location.objects.filter(branch=branch, code__iexact=...).first()
resolve_location(branch, hint) ==
    IF <<branch, hint>> \in Locations THEN <<branch, hint>> ELSE NoLocation

\* find_part_candidates: the part has a Stock or StockLocation row in the branch
PartKnown(d, p, scope) == scope = NoBranch \/ HasStock(d, p, scope) \/ SLKeys(d, p, scope) # {}

\* StockMovement.qty: MinValueValidator(1), checked by full_clean in save()
QtyValidAlways(qty) == TRUE
QtyValid(qty) == qty >= 1

\* chat_assistant.create_transfer_request: a TransferRequest row, a
\* StockMovement row that names no location, and the audit event, in one
\* transaction
create_transfer_request(d, actor, p, from_branch, to_branch, qty, note, outcome) ==
    LET id == Cardinality(DOMAIN d.tr) + 1
        d1 == [d EXCEPT !.tr = Put(d.tr, id,
                 [part |-> p, quantity |-> qty,
                  source_branch |-> from_branch, destination_branch |-> to_branch,
                  status |-> "requested", reserved_quantity |-> 0,
                  driver |-> NoUser, approved_at |-> FALSE,
                  rejection_reason |-> ""])]
        d2 == [d1 EXCEPT !.mv = Append(@, Movement(p, from_branch, qty,
                 "assistant_transfer_request", NoLocation, NoLocation))]
    IN IF from_branch = NoBranch \/ to_branch = NoBranch THEN Fail(d, "Branch not found.")
       ELSE IF from_branch = to_branch
         THEN Fail(d, "Source and destination branches must be different.")
       ELSE IF actor.name = NoUser THEN Fail(d, "Actor is required.")
       ELSE IF ~QtyValid(qty) THEN Fail(RolledBack(d, d1), "Ensure this value is greater than or equal to 1.")
       ELSE Audited(d, Done(d2, "created"), outcome)

\* the message of a session that has no pending action: the draft it leaves
\* pending, or no draft.  mentioned: the branches the message names, in order;
\* hints: the location codes it names, in order
NoDraft == [Idle EXCEPT !.msg = "no draft"]
DraftAction(d, u, active, action, p, mentioned, qty, hints) ==
    LET own == IF is_admin_user(u) THEN NoBranch ELSE u.branch
        named == IF Len(mentioned) > 0 THEN mentioned[1] ELSE NoBranch
        ledger == action \in LedgerActions
        \* resolve_branch_context
        branch0 == IF ~ledger THEN NoBranch ELSE IF named # NoBranch THEN named ELSE own
        from0 == IF ledger THEN NoBranch ELSE named
        to_branch == IF ledger THEN NoBranch
                     ELSE IF ~is_admin_user(u) THEN own
                     ELSE IF Len(mentioned) > 1 THEN mentioned[2] ELSE NoBranch
        given == IF ledger THEN branch0 ELSE from0
        branch == IF ledger /\ branch0 = NoBranch THEN active ELSE branch0
        from_branch == IF ~ledger /\ from0 = NoBranch THEN active ELSE from0
        scope == IF ledger THEN branch ELSE from_branch
        draft == [Idle EXCEPT !.pc = "pending", !.op = action, !.user = u, !.part = p,
                              !.branch = scope, !.to_branch = to_branch, !.qty = qty,
                              !.msg = "Draft action"]
    IN IF active = NoBranch THEN NoDraft
       ELSE IF given # NoBranch /\ is_admin_user(u) /\ given # active THEN NoDraft
       ELSE IF ~validate_tool_permission(u, action, branch, to_branch) THEN NoDraft
       ELSE IF qty <= 0 THEN NoDraft
       ELSE IF ~PartKnown(d, p, scope) THEN NoDraft
       ELSE IF action \in {"add_stock", "remove_stock"}
         THEN IF Len(hints) = 0 \/ resolve_location(branch, hints[1]) = NoLocation
                THEN NoDraft
              ELSE IF action = "add_stock"
                THEN [draft EXCEPT !.to_location = resolve_location(branch, hints[1])]
              ELSE [draft EXCEPT !.from_location = resolve_location(branch, hints[1])]
       ELSE IF action = "move_stock"
         THEN IF \/ Len(hints) < 2
                 \/ resolve_location(branch, hints[1]) = NoLocation
                 \/ resolve_location(branch, hints[2]) = NoLocation
                THEN NoDraft
              ELSE [draft EXCEPT !.from_location = resolve_location(branch, hints[1]),
                                 !.to_location = resolve_location(branch, hints[2])]
       ELSE IF to_branch = NoBranch THEN NoDraft
       ELSE draft

\* _assistant_execute_pending_action.  The three ledger calls commit in their
\* own transaction and the audit event is recorded after it; the transfer
\* request records it inside its transaction.
_assistant_execute_pending_action(d, me, outcome) ==
    IF me.op = "create_transfer_request"
      THEN IF ~validate_tool_permission(me.user, me.op, NoBranch, me.to_branch)
             THEN Fail(d, "denied")
           ELSE create_transfer_request(d, me.user, me.part, me.branch, me.to_branch,
                                        me.qty, "assistant_chat_action", outcome)
    ELSE IF ~validate_tool_permission(me.user, me.op, me.branch, NoBranch)
      THEN Fail(d, "denied")
    ELSE LET r == CASE me.op = "add_stock" ->
                       add_stock_to_location(d, me.part, me.branch, me.qty,
                                             me.to_location, "assistant_add")
                    [] me.op = "remove_stock" ->
                       remove_stock_from_locations(d, me.part, me.branch, me.qty,
                                                   me.from_location, "assistant_remove")
                    [] OTHER ->
                       move_stock_between_locations(d, me.part, me.branch, me.qty,
                                                    me.from_location, me.to_location,
                                                    "assistant_move")
         IN IF r.ok /\ outcome = "failed" THEN Fail(KeepsWrites(d, r.d), "audit") ELSE r

\* analytics_assistant, one message of a session at a time
ChatDraft(self, u, active, action, p, mentioned, qty, hints) ==
    /\ proc[self].pc = "idle"
    /\ proc' = [proc EXCEPT ![self] = DraftAction(DB, u, active, action, p, mentioned, qty, hints)]
    /\ UNCHANGED tables

ChatConfirm(self, active, outcome) ==
    LET me == proc[self]
        r == _assistant_execute_pending_action(DB, me, outcome)
    IN /\ me.pc = "pending"
       /\ LogOpen
       /\ Cardinality(DOMAIN transfers) < MaxTransfers
       /\ IF active = NoBranch
            THEN /\ proc' = [proc EXCEPT ![self].msg = "select the active branch"]
                 /\ UNCHANGED tables
            ELSE /\ Write(r.d)
                 /\ proc' = [proc EXCEPT ![self] =
                               IF r.ok THEN [Idle EXCEPT !.msg = "Done"]
                               ELSE [me EXCEPT !.msg = "Could not apply action"]]

ChatCancel(self) ==
    /\ proc[self].pc = "pending"
    /\ proc' = [proc EXCEPT ![self] = [Idle EXCEPT !.msg = "Pending action canceled."]]
    /\ UNCHANGED tables

ChatOtherApplies(self) ==
    /\ proc[self].pc = "pending"
    /\ LogOpen
    /\ Write(_assistant_execute_pending_action(DB, proc[self], "recorded").d)
    /\ proc' = [proc EXCEPT ![self].msg = "You have a pending write action."]

ChatOther(self) ==
    /\ proc[self].pc = "pending"
    /\ proc' = [proc EXCEPT ![self].msg = "You have a pending write action."]
    /\ UNCHANGED tables

\* clear_chat = 1
ChatClear(self) ==
    /\ proc[self].msg # ""
    /\ proc' = [proc EXCEPT ![self] = Idle]
    /\ UNCHANGED tables

\* one session of the assistant next to the screens: stock arrives at the
\* source branch, the session drafts, confirms and cancels
Sessions == {1}
ChatUsers == {Admin, Cashier} \cup {u \in Users : u.name = "mgrO"}
ChatBranches == {"OLDIND", "EX18"}
Mentions == {<<>>} \cup {<<b>> : b \in ChatBranches}
            \cup {<<"OLDIND", b>> : b \in ChatBranches}
Hints == {<<>>, <<"A3">>, <<"Z9">>, <<"A3", "B1">>}

NextChat ==
    \/ \E p \in Parts, q \in 1 .. MaxQty :
          /\ ~HasStock(DB, p, "OLDIND")
          /\ AddStock(p, "OLDIND", q, <<"OLDIND", "A3">>)
    \/ \E p \in Parts : SeedStock(p, "OLDIND", MaxQty)
    \/ \E self \in Sessions, u \in ChatUsers, a \in ChatBranches \cup {NoBranch},
          action \in WRITE_ACTIONS, p \in Parts, m \in Mentions, q \in Quantities,
          h \in Hints :
          ChatDraft(self, u, a, action, p, m, q, h)
    \/ \E self \in Sessions, a \in {"OLDIND", NoBranch}, o \in AuditOutcomes :
          ChatConfirm(self, a, o)
    \/ \E self \in Sessions : ChatCancel(self)
    \/ \E self \in Sessions : ChatOther(self)
    \/ \E self \in Sessions : ChatClear(self)

SpecChat == Init /\ [][NextChat]_vars

\* ------------------------------------------------ the POS scanner
\* cart.get(stock_id, 0) and the cart with a line set, a line of 0 dropped
CartQty(cart, k) == IF k \in DOMAIN cart THEN cart[k] ELSE 0
CartSet(cart, k, n) ==
    IF n > 0 THEN Put(cart, k, n) ELSE [x \in (DOMAIN cart) \ {k} |-> cart[x]]

ScanNeverAsks(guard, token, recent) ==
    [needs |-> FALSE, guard |-> [token |-> token, awaiting_confirm |-> FALSE]]

\* _scan_repeat_needs_confirmation.  recent: now_ts - last_ts is within
\* SCAN_REPEAT_WINDOW_SECONDS; every call stores now_ts, so the window runs
\* from the previous scan of the session.
_scan_repeat_needs_confirmation(guard, token, recent) ==
    LET same_recent == guard.token = token /\ recent IN
    IF same_recent /\ guard.awaiting_confirm
      THEN [needs |-> FALSE, guard |-> [token |-> token, awaiting_confirm |-> FALSE]]
    ELSE IF same_recent
      THEN [needs |-> TRUE, guard |-> [token |-> token, awaiting_confirm |-> TRUE]]
    ELSE [needs |-> FALSE, guard |-> [token |-> token, awaiting_confirm |-> FALSE]]

ScanConfirmMsg == "You just scanned this item. Scan again to confirm adding another unit."

\* scan_dispatch with mode=pos on the session s: action undo, or the scan of
\* a code that matches the part p only
scan_dispatch(d, s, u, branch, action, p, qty, recent) ==
    LET quantity == IF qty <= 0 THEN 1 ELSE qty
        stock_id == <<p, branch>>
        current_qty == CartQty(s.cart, stock_id)
        g == _scan_repeat_needs_confirmation(s.pos_scan_repeat_guard, stock_id, recent)
    IN IF ~_can_use_pos(u) THEN [s EXCEPT !.msg = "403"]
       ELSE IF action = "undo"
         THEN IF s.pos_scan_undo = <<>> THEN [s EXCEPT !.msg = "No scan action to undo."]
              ELSE LET event == s.pos_scan_undo[Len(s.pos_scan_undo)]
                       next_qty == Max(CartQty(s.cart, event.stock_id) - event.delta, 0)
                   IN [s EXCEPT !.cart = CartSet(s.cart, event.stock_id, next_qty),
                                !.pos_scan_undo = SubSeq(@, 1, Len(@) - 1),
                                !.msg = "Last POS scan undone."]
       ELSE IF ~HasStock(d, p, branch) /\ SLKeys(d, p, branch) = {}
         THEN [s EXCEPT !.msg = "No part found for scan"]
       ELSE IF ~HasStock(d, p, branch) THEN [s EXCEPT !.msg = "not stocked"]
       ELSE IF g.needs
         THEN [s EXCEPT !.pos_scan_repeat_guard = g.guard, !.msg = ScanConfirmMsg]
       ELSE IF current_qty + quantity > _available_stock_quantity(d, p, branch, NoTransfer)
         THEN [s EXCEPT !.pos_scan_repeat_guard = g.guard, !.msg = "Only units available"]
       ELSE LET stack == Append(s.pos_scan_undo, [stock_id |-> stock_id, delta |-> quantity])
            IN [s EXCEPT !.pos_scan_repeat_guard = g.guard,
                         !.cart = CartSet(s.cart, stock_id, current_qty + quantity),
                         !.pos_scan_undo = IF Len(stack) > 100
                                           THEN SubSeq(stack, Len(stack) - 99, Len(stack))
                                           ELSE stack,
                         !.msg = "Scanned and added to cart."]

PosScan(self, u, p, qty, recent) ==
    /\ Len(proc[self].pos_scan_undo) < MaxScans
    /\ proc' = [proc EXCEPT ![self] = scan_dispatch(DB, @, u, PosBranch, "scan", p, qty, recent)]
    /\ UNCHANGED tables

PosUndo(self, u) ==
    /\ proc' = [proc EXCEPT ![self] = scan_dispatch(DB, @, u, PosBranch, "undo", "none", 1, FALSE)]
    /\ UNCHANGED tables

\* update_cart_item on a Stock row of the active branch the user has access to
UpdateCartItem(self, u, p, quantity) ==
    LET available_qty == _available_stock_quantity(DB, p, PosBranch, NoTransfer) IN
    /\ _can_use_pos(u)
    /\ HasStock(DB, p, PosBranch)
    /\ proc' = [proc EXCEPT ![self].cart =
                   CartSet(@, <<p, PosBranch>>, Min(quantity, available_qty)),
                            ![self].msg = ""]
    /\ UNCHANGED tables

\* clear_cart
ClearCart(self, u) ==
    /\ _can_use_pos(u)
    /\ proc' = [proc EXCEPT ![self].cart = <<>>,
                            ![self].pos_scan_undo = <<>>,
                            ![self].pos_scan_repeat_guard = Idle.pos_scan_repeat_guard,
                            ![self].msg = "Cart cleared."]
    /\ UNCHANGED tables

\* one POS session of the cashier, on stock of two parts
NextScan ==
    \/ \E p \in CartParts, q \in 1 .. MaxQty :
          ~HasStock(DB, p, PosBranch) /\ AddStock(p, PosBranch, q, <<PosBranch, "A3">>)
    \/ \E self \in Sessions, p \in CartParts, q \in 0 .. MaxQty, recent \in BOOLEAN :
          PosScan(self, Cashier, p, q, recent)
    \/ \E self \in Sessions : PosUndo(self, Cashier)
    \/ \E self \in Sessions, p \in CartParts, q \in 0 .. MaxQty :
          UpdateCartItem(self, Cashier, p, q)
    \/ \E self \in Sessions : ClearCart(self, Cashier)

SpecScan == Init /\ [][NextScan]_vars

\* ------------------------------------------------------- support tickets
TicketStatusValues == {"new", "open", "in_progress", "fixed"}
TicketUsers == { [name |-> "abdullah", role |-> "tech", branch |-> NoBranch],
                 [name |-> "saleh", role |-> "cashier", branch |-> "OLDIND"] }
is_tech_user(u) == u.role = "tech" \/ u.name = "abdullah"

\* Ticket.can_transition_to
can_transition_to(status, next_status) ==
    LET allowed == CASE status = "new" -> {"open"}
                     [] status = "open" -> {"in_progress"}
                     [] status = "in_progress" -> {"fixed"}
                     [] OTHER -> {}
    IN IF next_status = status THEN TRUE ELSE next_status \in allowed

\* ticket_create by a staff user, title and description given
TicketCreate(u) ==
    /\ Cardinality(DOMAIN tickets) < MaxTickets
    /\ tickets' = Put(tickets, Cardinality(DOMAIN tickets) + 1,
                      [status |-> "new", reporter |-> u.name])
    /\ UNCHANGED <<stock, sl, movements, transfers, orders, sales, proc>>

\* POST tickets/<id> up to the checks: get_object_or_404 fetches the row (of
\* any reporter for a tech user, the user's own otherwise) without a lock, and
\* a user who is not tech is refused
CallTicketDetail(self, u, id, new_status) ==
    /\ proc[self].pc = "idle"
    /\ id \in DOMAIN tickets
    /\ is_tech_user(u)
    /\ proc' = [proc EXCEPT ![self] =
                  [Idle EXCEPT !.pc = "ticket", !.tid = id, !.user = u,
                               !.ticket = tickets[id], !.status = new_status]]
    /\ UNCHANGED tables

\* the rest of the request, on the row it fetched: the transition check and
\* ticket.save(update_fields=["status", "updated_at"])
TicketSave(self) ==
    LET me == proc[self] IN
    /\ me.pc = "ticket"
    /\ IF me.status # "" /\ me.status \in TicketStatusValues /\ me.status # me.ticket.status
       THEN IF ~can_transition_to(me.ticket.status, me.status)
            THEN /\ tickets' = tickets
                 /\ proc' = [proc EXCEPT ![self] = [Idle EXCEPT !.msg = "Invalid transition"]]
            ELSE /\ tickets' = [tickets EXCEPT ![me.tid].status = me.status]
                 /\ proc' = [proc EXCEPT ![self] = [Idle EXCEPT !.msg = "Ticket updated."]]
       ELSE /\ tickets' = tickets
            /\ proc' = [proc EXCEPT ![self] = [Idle EXCEPT !.msg = "No changes detected."]]
    /\ UNCHANGED <<stock, sl, movements, transfers, orders, sales>>

NextTickets ==
    \/ \E u \in TicketUsers : TicketCreate(u)
    \/ \E self \in Procs, u \in TicketUsers, id \in 1 .. MaxTickets,
          new_status \in TicketStatusValues \cup {"", "closed"} :
          CallTicketDetail(self, u, id, new_status)
    \/ \E self \in Procs : TicketSave(self)

SpecTickets == Init /\ [][NextTickets]_vars

\* ------------------------------------------------ vocabulary of the claims
\* Available and ReservedQuantity as the design states them (section 4.3)
SpecReserved(d, p, b, excluding) ==
    SumOver([i \in DOMAIN d.tr |-> d.tr[i].reserved_quantity],
            {i \in DOMAIN d.tr : /\ d.tr[i].part = p
                                 /\ d.tr[i].source_branch = b
                                 /\ d.tr[i].status \in {"approved", "picked_up", "delivered"}
                                 /\ i # excluding})
SpecAvailable(d, p, b, excluding) ==
    LET free == OnHand(d, p, b) - SpecReserved(d, p, b, excluding)
    IN IF free > 0 THEN free ELSE 0

\* a reservation is held on (p, b): a transfer out of it was approved and is
\* neither rejected nor received yet
HeldOn(d, p, b) ==
    \E i \in DOMAIN d.tr : /\ d.tr[i].part = p
                           /\ d.tr[i].source_branch = b
                           /\ d.tr[i].status \in {"approved", "picked_up", "delivered"}
Balanced(d, p, b) ==
    /\ HasStock(d, p, b)
    /\ _available_stock_quantity(d, p, b, NoTransfer)
         + _reserved_quantity_for_part_branch(d, p, b, NoTransfer) = d.stock[<<p, b>>]

\* the call was refused and changed nothing
Refused(r) == ~r.ok /\ r.d = DB
SLQty(d, p, b, loc) == IF <<p, b, loc>> \in DOMAIN d.sl THEN d.sl[<<p, b, loc>>] ELSE 0
LedgerUnchanged(d) == d.stock = stock /\ d.sl = sl /\ d.mv = movements
\* the rows of every transfer but tid are what they were
OthersUnchanged(d, tid) ==
    /\ DOMAIN d.tr = DOMAIN transfers
    /\ \A i \in DOMAIN transfers \ {tid} : d.tr[i] = transfers[i]
\* the caller is let through by the view's permission and branch checks and
\* gives a reason
MayDecide(u, a, t, reason) ==
    /\ _can_approve_transfer(u, t)
    /\ a = t.source_branch
    /\ Strip(reason) # ""

\* ------------------------------------------------------------------ claims

\* C1: after any sequence of AddStock, RemoveStock and MoveStock calls from an
\* empty ledger, the Stock aggregate of every (part, branch) equals the sum of
\* its StockLocation quantities, a missing Stock row counting as 0.
C1_AggregateEqualsLocationSum ==
    \A p \in Parts, b \in Branches : OnHand(DB, p, b) = LocationTotal(DB, p, b)

HasMovement(action) == \E i \in 1 .. Len(movements) : movements[i].action = action

C1_Witness ==
    /\ HasMovement("add") /\ HasMovement("move") /\ HasMovement("remove")
    /\ OnHand(DB, "P1", LedgerBranch) > 0
    /\ Cardinality(SLKeys(DB, "P1", LedgerBranch)) >= 2

Done2(i, j) == proc[i].pc = "done" /\ proc[j].pc = "done"
InsufficientStock == "Insufficient stock in selected locations."
InsufficientAvailable == "Insufficient available stock to reserve."

\* C2: in every state, whatever the interleaving of the requests, no
\* StockLocation quantity and no Stock quantity is negative, neither among
\* the committed rows nor among the rows a transaction is about to commit.
C2_NeverNegative ==
    /\ \A k \in DOMAIN stock : stock[k] >= 0
    /\ \A k \in DOMAIN sl : sl[k] >= 0
    /\ \A i \in Procs :
          /\ \A k \in DOMAIN proc[i].out.stock : proc[i].out.stock[k] >= 0
          /\ \A k \in DOMAIN proc[i].out.sl : proc[i].out.sl[k] >= 0

\* two removes were made against the same on-hand quantity, which covers each
\* but not both; one went through, one was refused, and nothing is left
C2_Witness ==
    \E i, j \in Procs :
       /\ i # j /\ Done2(i, j)
       /\ proc[i].op = "remove" /\ proc[j].op = "remove"
       /\ proc[i].onhand = proc[j].onhand
       /\ proc[i].qty <= proc[i].onhand /\ proc[j].qty <= proc[j].onhand
       /\ proc[i].qty + proc[j].qty > proc[i].onhand
       /\ proc[i].ok /\ ~proc[j].ok
       /\ OnHand(DB, proc[i].part, proc[i].branch) = 0
       /\ Cardinality(SLKeys(DB, proc[i].part, proc[i].branch)) = 2

\* two Approve calls on two transfers out of the same source, whose Stock row
\* holds less than the two quantities together
Racing(i, j) ==
    /\ i # j
    /\ proc[i].op = "approve" /\ proc[j].op = "approve"
    /\ proc[i].tid # proc[j].tid
    /\ proc[i].part = proc[j].part /\ proc[i].branch = proc[j].branch
    /\ HasStock(DB, proc[i].part, proc[i].branch)
    /\ proc[i].qty + proc[j].qty > OnHand(DB, proc[i].part, proc[i].branch)

\* C3: of two concurrent Approve calls on requested transfers of q1 and q2 out
\* of a source whose Stock row holds Q < q1 + q2 with nothing else reserved,
\* at most one succeeds in every interleaving; a call that fails fails with
\* InsufficientAvailable and leaves its transfer requested with
\* reserved_quantity 0, and what is reserved never exceeds Q.
C3_AtMostOneApprove ==
    \A i, j \in Procs :
       Racing(i, j) =>
          /\ ~(proc[i].ok /\ proc[j].ok)
          /\ _reserved_quantity_for_part_branch(DB, proc[i].part, proc[i].branch, NoTransfer)
               <= OnHand(DB, proc[i].part, proc[i].branch)
          /\ (proc[i].pc = "done" /\ ~proc[i].ok) =>
                /\ proc[i].msg = InsufficientAvailable
                /\ transfers[proc[i].tid].status = "requested"
                /\ transfers[proc[i].tid].reserved_quantity = 0

\* either transfer alone fits; one call won and the other lost
C3_Witness ==
    \E i, j \in Procs :
       /\ Racing(i, j) /\ Done2(i, j)
       /\ proc[i].qty <= OnHand(DB, proc[i].part, proc[i].branch)
       /\ proc[j].qty <= OnHand(DB, proc[i].part, proc[i].branch)
       /\ proc[i].ok /\ transfers[proc[i].tid].status = "approved"
       /\ ~proc[j].ok /\ proc[j].msg = InsufficientAvailable

\* C4: two concurrent RemoveStock calls on the same (part, branch) that both
\* succeed ask together for no more than was on hand when the first of them
\* was made; and what a RemoveStock transaction read of the ledger is still
\* what is committed when it commits, so the one that gets the lock second
\* has read the deduction of the first.
C4_RemovesSerialize ==
    /\ \A i, j \in Procs :
          ( /\ i # j /\ Done2(i, j)
            /\ proc[i].op = "remove" /\ proc[j].op = "remove"
            /\ proc[i].part = proc[j].part /\ proc[i].branch = proc[j].branch
            /\ proc[i].ok /\ proc[j].ok )
          => proc[i].qty + proc[j].qty <= Max(proc[i].onhand, proc[j].onhand)
    /\ \A i \in Procs :
          (proc[i].op = "remove" /\ proc[i].pc = "staged")
          => proc[i].base.stock = stock /\ proc[i].base.sl = sl /\ proc[i].base.mv = movements

\* both calls were made against the same on-hand quantity, enough for either;
\* the second was refused for lack of stock
C4_Witness ==
    \E i, j \in Procs :
       /\ i # j /\ Done2(i, j)
       /\ proc[i].op = "remove" /\ proc[j].op = "remove"
       /\ proc[i].onhand = proc[j].onhand
       /\ proc[i].qty <= proc[i].onhand /\ proc[j].qty <= proc[j].onhand
       /\ proc[i].ok
       /\ ~proc[j].ok /\ proc[j].msg = InsufficientStock
       /\ proc[j].from_location = NoLocation

\* what the locations of (p, b) hold once a Stock row without any has been
\* seeded into the default location
SeededTotal(d, p, b) ==
    IF HasStock(d, p, b) /\ SLKeys(d, p, b) = {} THEN Max(d.stock[<<p, b>>], 0)
    ELSE LocationTotal(d, p, b)

\* the databases ConfirmReceive of transfer t may meet: the one at hand, and
\* the ones where the admin site has set the source aggregate to something else
SourceEdits(t) ==
    {DB} \cup {AdminStockEdit(DB, t.part, t.source_branch, x) : x \in 0 .. MaxQty + 1}

\* the caller is let through by ConfirmReceive's checks and gives a reason
MayReceive(u, a, t, reason) ==
    /\ is_admin_user(u) \/ u.branch = t.destination_branch
    /\ a = t.destination_branch
    /\ Strip(reason) # ""

\* C11: ConfirmReceive of a delivered transfer by a permitted caller succeeds
\* exactly when the source Stock row holds at least the transfer quantity
\* (whatever is reserved) and the source's locations can give it; in every
\* other case it is refused, the transfer stays delivered with
\* reserved_quantity = quantity, and no Stock, StockLocation or StockMovement
\* row is changed.
C11_FailedReceiveChangesNothing ==
    \A tid \in DOMAIN transfers, u \in Users, reason \in Reasons :
       \A a \in ActiveBranches(u), d \in SourceEdits(transfers[tid]) :
          LET t == transfers[tid]
              r == transfer_confirm_receive(d, u, a, tid, reason)
              src == <<t.part, t.source_branch>>
          IN t.status = "delivered" =>
               /\ MayReceive(u, a, t, reason) =>
                    (r.ok <=> /\ HasStock(d, t.part, t.source_branch)
                              /\ d.stock[src] >= t.quantity
                              /\ SeededTotal(d, t.part, t.source_branch) >= t.quantity)
               /\ ~r.ok => /\ r.d = d
                           /\ r.d.tr[tid].status = "delivered"
                           /\ r.d.tr[tid].reserved_quantity = t.quantity

\* a delivered transfer whose source was drained below its quantity by a
\* direct removal, and whose source aggregate, were it edited back up, would
\* still not be covered by the locations
C11_Witness ==
    \E tid \in DOMAIN transfers :
       LET t == transfers[tid]
           r == transfer_confirm_receive(DB, Admin, t.destination_branch, tid, "ok")
           e == transfer_confirm_receive(
                   AdminStockEdit(DB, t.part, t.source_branch, t.quantity),
                   Admin, t.destination_branch, tid, "ok")
       IN /\ t.status = "delivered"
          /\ HasMovement("remove")
          /\ OnHand(DB, t.part, t.source_branch) < t.quantity
          /\ ~r.ok /\ r.msg = "Source branch stock is below transfer quantity."
          /\ ~e.ok /\ e.msg = InsufficientStock

BlankReasons == {"", " ", "  "}

\* C12: Approve, Reject, MarkPickedUp, MarkDelivered and ConfirmReceive called
\* with an empty or whitespace-only reason are refused, whoever calls and
\* whatever the status, and leave the transfer, the ledger and the movement
\* log as they were.
C12_BlankReasonRefused ==
    \A tid \in DOMAIN transfers, u \in Users, reason \in BlankReasons :
       \A a \in ActiveBranches(u) :
          /\ Refused(transfer_approve(DB, u, a, tid, reason))
          /\ Refused(transfer_reject(DB, u, a, tid, reason))
          /\ Refused(transfer_mark_picked_up(DB, u, tid, reason))
          /\ Refused(transfer_mark_delivered(DB, u, tid, reason))
          /\ Refused(transfer_confirm_receive(DB, u, a, tid, reason))

\* one transfer that a reason would get approved and one that a reason would
\* get received
C12_Witness ==
    \E i, j \in DOMAIN transfers :
       /\ transfers[i].status = "requested"
       /\ transfer_approve(DB, Admin, transfers[i].source_branch, i, "ok").ok
       /\ Refused(transfer_approve(DB, Admin, transfers[i].source_branch, i, " "))
       /\ transfers[j].status = "delivered"
       /\ transfer_confirm_receive(DB, Admin, transfers[j].destination_branch, j, "ok").ok
       /\ Refused(transfer_confirm_receive(DB, Admin, transfers[j].destination_branch, j, "  "))

\* the movement rows a call appended, in order
Appended(d) == SubSeq(d.mv, Len(movements) + 1, Len(d.mv))
SeqSum(q) == SumOver([i \in 1 .. Len(q) |-> q[i].qty], 1 .. Len(q))
\* location l holding n is drained before location m holding k
DrainedBefore(l, n, m, k) == n > k \/ (n = k /\ CodeRank(l[2]) < CodeRank(m[2]))
LedgerPairs == Parts \X {LedgerBranch}
PairLocations(b) == {b} \X Codes

\* C13: RemoveStock of q with no location, when the locations of the pair
\* hold at least q together, succeeds; it visits the locations by descending
\* quantity, ties by location code, takes min(quantity, what remains) from
\* each until q is had, appends one movement per location touched and none
\* else, the movement quantities sum to q, and the aggregate goes down by q.
C13_GreedyDrain ==
    \A pb \in LedgerPairs : \A q \in 1 .. LocationTotal(DB, pb[1], pb[2]) :
       LET p == pb[1]
           b == pb[2]
           r == remove_stock_from_locations(DB, p, b, q, NoLocation, "remove")
           m == Appended(r.d)
           before(l) == SLQty(DB, p, b, l)
           after(l) == SLQty(r.d, p, b, l)
           touched == {m[i].from_location : i \in 1 .. Len(m)}
       IN /\ r.ok
          /\ Len(m) >= 1 /\ SeqSum(m) = q
          /\ OnHand(r.d, p, b) = OnHand(DB, p, b) - q
          /\ \A i \in 1 .. Len(m) :
                /\ m[i] = Movement(p, b, m[i].qty, "remove", m[i].from_location, NoLocation)
                /\ m[i].from_location \in PairLocations(b)
                /\ m[i].qty = Min(before(m[i].from_location), q - SeqSum(SubSeq(m, 1, i - 1)))
                /\ m[i].qty > 0
                /\ after(m[i].from_location) = before(m[i].from_location) - m[i].qty
                /\ \A j \in 1 .. i - 1 :
                      /\ m[j].from_location # m[i].from_location
                      /\ DrainedBefore(m[j].from_location, before(m[j].from_location),
                                       m[i].from_location, before(m[i].from_location))
          /\ \A l \in PairLocations(b) \ touched :
                /\ after(l) = before(l)
                /\ (<<p, b, l>> \in DOMAIN r.d.sl) = (<<p, b, l>> \in DOMAIN sl)
                /\ \A k \in touched : before(l) > 0 => DrainedBefore(k, before(k), l, before(l))
          /\ r.d.tr = transfers

\* the larger location is emptied and the next gives the rest, as 7@A3, 3@B1
\* and q = 8 leave 0@A3, 2@B1
C13_Witness ==
    \E l, k \in PairLocations(LedgerBranch) :
       LET n == SLQty(DB, "P1", LedgerBranch, l)
           r == remove_stock_from_locations(DB, "P1", LedgerBranch, n + 1, NoLocation, "remove")
       IN /\ n > SLQty(DB, "P1", LedgerBranch, k)
          /\ SLQty(DB, "P1", LedgerBranch, k) > 1
          /\ Cardinality({j \in SLKeys(DB, "P1", LedgerBranch) : sl[j] > 0}) = 2
          /\ r.ok
          /\ Len(Appended(r.d)) = 2
          /\ SLQty(r.d, "P1", LedgerBranch, l) = 0
          /\ SLQty(r.d, "P1", LedgerBranch, k) = SLQty(DB, "P1", LedgerBranch, k) - 1

RemoveFrom(b) == {NoLocation} \cup PairLocations(b)
OverTotal == MaxQty * 3 + 1

\* C14 as stated: RemoveStock of more than the locations of the pair hold
\* together fails with InsufficientStock and leaves every StockLocation
\* quantity, the aggregate and the movement log as they were.
C14_Original ==
    \A pb \in LedgerPairs, q \in 1 .. OverTotal, l \in RemoveFrom(LedgerBranch) :
       LET r == remove_stock_from_locations(DB, pb[1], pb[2], q, l, "remove") IN
       q > LocationTotal(DB, pb[1], pb[2]) =>
          ~r.ok /\ r.msg = InsufficientStock /\ r.d = DB

\* C14 amended: the same of a RemoveStock of more than the pair holds once an
\* aggregate without location rows is counted as held by the default
\* location.
C14_OverdrawRollsBack ==
    \A pb \in LedgerPairs, q \in 1 .. OverTotal, l \in RemoveFrom(LedgerBranch) :
       LET r == remove_stock_from_locations(DB, pb[1], pb[2], q, l, "remove") IN
       q > SeededTotal(DB, pb[1], pb[2]) =>
          ~r.ok /\ r.msg = InsufficientStock /\ r.d = DB

\* two stocked locations, so that the refused call had drained both before it
\* found itself short
C14_Witness ==
    LET total == LocationTotal(DB, "P1", LedgerBranch)
        r == remove_stock_from_locations(DB, "P1", LedgerBranch, total + 1, NoLocation, "remove")
    IN /\ Cardinality({j \in SLKeys(DB, "P1", LedgerBranch) : sl[j] > 0}) >= 2
       /\ HasMovement("remove")
       /\ ~r.ok /\ r.msg = InsufficientStock /\ r.d = DB

\* what location l of (p, b) holds, an aggregate without location rows being
\* held by the default location
SeededQty(d, p, b, l) ==
    IF HasStock(d, p, b) /\ SLKeys(d, p, b) = {}
    THEN IF l = get_or_create_default_location(b) THEN Max(d.stock[<<p, b>>], 0) ELSE 0
    ELSE SLQty(d, p, b, l)

\* C15 as stated: RemoveStock from a given location fails with
\* InsufficientStock, changing nothing, whenever that location's quantity is
\* less than requested, whatever the other locations hold, and on success no
\* other location's quantity changes.
C15_Original ==
    \A pb \in LedgerPairs, q \in 1 .. OverTotal, l \in PairLocations(LedgerBranch) :
       LET r == remove_stock_from_locations(DB, pb[1], pb[2], q, l, "remove") IN
       /\ SLQty(DB, pb[1], pb[2], l) < q => (~r.ok /\ r.msg = InsufficientStock /\ r.d = DB)
       /\ r.ok => \A k \in PairLocations(pb[2]) \ {l} :
                     SLQty(r.d, pb[1], pb[2], k) = SLQty(DB, pb[1], pb[2], k)

\* C15 amended: RemoveStock from a given location succeeds exactly when that
\* location holds the quantity, an aggregate without location rows being held
\* by the default location; refused, it fails with InsufficientStock and
\* changes nothing; on success that location goes down by the quantity with
\* one movement, and no other location's quantity changes.
C15_OnlyFromThatLocation ==
    \A pb \in LedgerPairs, q \in 1 .. OverTotal, l \in PairLocations(LedgerBranch) :
       LET p == pb[1]
           b == pb[2]
           r == remove_stock_from_locations(DB, p, b, q, l, "remove")
       IN /\ r.ok <=> SeededQty(DB, p, b, l) >= q
          /\ ~r.ok => (r.msg = InsufficientStock /\ r.d = DB)
          /\ r.ok => /\ SLQty(r.d, p, b, l) = SeededQty(DB, p, b, l) - q
                     /\ \A k \in PairLocations(b) \ {l} :
                           SLQty(r.d, p, b, k) = SeededQty(DB, p, b, k)
                     /\ Appended(r.d) = <<Movement(p, b, q, "remove", l, NoLocation)>>
                     /\ OnHand(r.d, p, b) = OnHand(DB, p, b) - q

\* the pair holds enough, the location asked does not
C15_Witness ==
    \E l, k \in PairLocations(LedgerBranch) :
       LET n == SLQty(DB, "P1", LedgerBranch, l)
           r == remove_stock_from_locations(DB, "P1", LedgerBranch, n + 1, l, "remove")
       IN /\ n > 0
          /\ SLQty(DB, "P1", LedgerBranch, k) > n
          /\ ~r.ok /\ r.msg = InsufficientStock /\ r.d = DB
          /\ remove_stock_from_locations(DB, "P1", LedgerBranch, n, l, "remove").ok

MoveEnds == LedgerLocations \ {NoLocation}
HasRow(d, p, b, l) == <<p, b, l>> \in DOMAIN d.sl

\* what a successful move of q from f to t leaves, but for the quantity at f
Moved(r, p, b, q, f, t) ==
    /\ SLQty(r.d, p, b, t) = SLQty(DB, p, b, t) + q
    /\ Appended(r.d) = <<Movement(p, b, q, "move", f, t)>>
    /\ OnHand(r.d, p, b) = OnHand(DB, p, b)
    /\ r.d.tr = transfers

\* C16 as stated: a successful MoveStock of q takes q from the source
\* location, adds q to the destination location, appends one movement with
\* both locations set, and leaves the aggregate and every other location's
\* quantity as they were.
C16_Original ==
    \A pb \in LedgerPairs, q \in 1 .. OverTotal, f \in MoveEnds, t \in MoveEnds :
       LET p == pb[1]
           b == pb[2]
           r == move_stock_between_locations(DB, p, b, q, f, t, "move")
       IN r.ok => /\ Moved(r, p, b, q, f, t)
                  /\ SLQty(r.d, p, b, f) = SLQty(DB, p, b, f) - q
                  /\ \A k \in PairLocations(b) \ {f, t} :
                        SLQty(r.d, p, b, k) = SLQty(DB, p, b, k)

\* C16 amended: the same, the source location and the others being counted
\* from what they hold once an aggregate without location rows has been put
\* into the default location.
C16_MoveKeepsAggregate ==
    \A pb \in LedgerPairs, q \in 1 .. OverTotal, f \in MoveEnds, t \in MoveEnds :
       LET p == pb[1]
           b == pb[2]
           r == move_stock_between_locations(DB, p, b, q, f, t, "move")
       IN r.ok => /\ Moved(r, p, b, q, f, t)
                  /\ SLQty(r.d, p, b, f) = SeededQty(DB, p, b, f) - q
                  /\ \A k \in PairLocations(b) \ {f, t} :
                        SLQty(r.d, p, b, k) = SeededQty(DB, p, b, k)

\* three stocked locations; a move between two of them goes through
C16_Witness ==
    \E f, t, k \in PairLocations(LedgerBranch) :
       /\ f # t /\ k \notin {f, t}
       /\ SLQty(DB, "P1", LedgerBranch, f) > 1
       /\ SLQty(DB, "P1", LedgerBranch, t) > 0
       /\ SLQty(DB, "P1", LedgerBranch, k) > 0
       /\ move_stock_between_locations(DB, "P1", LedgerBranch, 1, f, t, "move").ok

\* C17 as stated: MoveStock fails, leaving every StockLocation row, the
\* aggregate and the movement log unchanged and creating no destination row,
\* when source and destination are the same, when either belongs to another
\* branch, or when the source location's quantity is less than requested.
C17_Original ==
    \A pb \in LedgerPairs, q \in 1 .. OverTotal, f \in MoveEnds, t \in MoveEnds :
       LET p == pb[1]
           b == pb[2]
           r == move_stock_between_locations(DB, p, b, q, f, t, "move")
       IN (f = t \/ f[1] # b \/ t[1] # b \/ SLQty(DB, p, b, f) < q)
             => (~r.ok /\ r.d = DB)

\* C17 amended: MoveStock succeeds exactly when the two locations differ,
\* both belong to the branch, and the source holds the quantity, an aggregate
\* without location rows being held by the default location; otherwise it
\* fails and leaves everything unchanged, no destination row created.
C17_FailedMoveChangesNothing ==
    \A pb \in LedgerPairs, q \in 1 .. OverTotal, f \in MoveEnds, t \in MoveEnds :
       LET p == pb[1]
           b == pb[2]
           r == move_stock_between_locations(DB, p, b, q, f, t, "move")
       IN /\ r.ok <=> (f # t /\ f[1] = b /\ t[1] = b /\ SeededQty(DB, p, b, f) >= q)
          /\ ~r.ok => r.d = DB

\* each of the three refusals happens where the same move of less, or to
\* another place, goes through
C17_Witness ==
    \E f, t \in PairLocations(LedgerBranch) :
       LET n == SLQty(DB, "P1", LedgerBranch, f)
           move(q, from, to) ==
              move_stock_between_locations(DB, "P1", LedgerBranch, q, from, to, "move")
       IN /\ f # t /\ n > 0
          /\ ~HasRow(DB, "P1", LedgerBranch, t)
          /\ HasMovement("move")
          /\ move(n, f, t).ok
          /\ ~move(n + 1, f, t).ok /\ move(n + 1, f, t).d = DB
          /\ ~move(n, f, f).ok
          /\ ~move(n, f, <<"EX18", "A3">>).ok

AddTo(b) == {NoLocation} \cup PairLocations(b)
TargetOf(b, l) == IF l = NoLocation THEN get_or_create_default_location(b) ELSE l

\* what a successful AddStock of q to l leaves, but for the location quantities
Added(r, p, b, q, l) ==
    /\ HasRow(r.d, p, b, TargetOf(b, l))
    /\ OnHand(r.d, p, b) = OnHand(DB, p, b) + q
    /\ HasStock(r.d, p, b)
    /\ Appended(r.d) = <<Movement(p, b, q, "add", NoLocation, TargetOf(b, l))>>
    /\ r.d.tr = transfers

\* C18 as stated: a successful AddStock of q raises exactly one StockLocation
\* row by q (the given location, or the default location when none is given,
\* created at 0 if absent), raises the aggregate by q and appends exactly one
\* movement with to_location set and from_location null.
C18_Original ==
    \A pb \in LedgerPairs, q \in 1 .. MaxQty + 1, l \in AddTo(LedgerBranch) :
       LET p == pb[1]
           b == pb[2]
           r == add_stock_to_location(DB, p, b, q, l, "add")
       IN /\ r.ok
          /\ Added(r, p, b, q, l)
          /\ SLQty(r.d, p, b, TargetOf(b, l)) = SLQty(DB, p, b, TargetOf(b, l)) + q
          /\ \A k \in PairLocations(b) \ {TargetOf(b, l)} :
                /\ SLQty(r.d, p, b, k) = SLQty(DB, p, b, k)
                /\ HasRow(r.d, p, b, k) = HasRow(DB, p, b, k)

\* C18 amended: the same for a pair that has StockLocation rows or no
\* aggregate; for a pair with an aggregate Q > 0 and no StockLocation row the
\* default location is first created holding Q, so that it ends at Q + q when
\* it is the target and at Q beside the target's q when it is not.
C18_AddRaisesOneLocation ==
    \A pb \in LedgerPairs, q \in 1 .. MaxQty + 1, l \in AddTo(LedgerBranch) :
       LET p == pb[1]
           b == pb[2]
           r == add_stock_to_location(DB, p, b, q, l, "add")
           seeded == HasStock(DB, p, b) /\ SLKeys(DB, p, b) = {} /\ stock[<<p, b>>] > 0
       IN /\ r.ok
          /\ Added(r, p, b, q, l)
          /\ SLQty(r.d, p, b, TargetOf(b, l)) = SeededQty(DB, p, b, TargetOf(b, l)) + q
          /\ \A k \in PairLocations(b) \ {TargetOf(b, l)} :
                /\ SLQty(r.d, p, b, k) = SeededQty(DB, p, b, k)
                /\ HasRow(r.d, p, b, k) =
                      (HasRow(DB, p, b, k) \/ (seeded /\ k = get_or_create_default_location(b)))

\* stock is added to a location that has no row yet, beside two that have
C18_Witness ==
    \E l \in PairLocations(LedgerBranch) :
       /\ ~HasRow(DB, "P1", LedgerBranch, l)
       /\ Cardinality({j \in SLKeys(DB, "P1", LedgerBranch) : sl[j] > 0}) = 2
       /\ HasMovement("add")
       /\ LET r == add_stock_to_location(DB, "P1", LedgerBranch, 1, l, "add")
          IN r.ok /\ SLQty(r.d, "P1", LedgerBranch, l) = 1

\* C19: AddStock with quantity <= 0 fails with InvalidQuantity, and AddStock
\* of a positive quantity to a location of another branch fails with
\* LocationMismatch; either way no StockLocation row is created or changed,
\* the aggregate is unchanged and no movement is appended.
C19_BadAddRefused ==
    \A pb \in LedgerPairs, q \in -1 .. MaxQty, l \in {NoLocation} \cup Locations :
       LET p == pb[1]
           b == pb[2]
           r == add_stock_to_location(DB, p, b, q, l, "add")
       IN /\ q <= 0 => /\ ~r.ok /\ r.d = DB
                       /\ r.msg = "Quantity must be greater than zero."
          /\ (q > 0 /\ l # NoLocation /\ l[1] # b) =>
                /\ ~r.ok /\ r.d = DB
                /\ r.msg = "Target location does not belong to the selected branch."

\* a ledger that holds stock, where the same calls with a positive quantity
\* and a location of the branch go through
C19_Witness ==
    /\ OnHand(DB, "P1", LedgerBranch) > 0
    /\ HasMovement("add")
    /\ add_stock_to_location(DB, "P1", LedgerBranch, 1, <<LedgerBranch, "A3">>, "add").ok
    /\ ~add_stock_to_location(DB, "P1", LedgerBranch, 0, <<LedgerBranch, "A3">>, "add").ok
    /\ ~add_stock_to_location(DB, "P1", LedgerBranch, 1, <<"EX18", "A3">>, "add").ok

\* the ledger states SyncAggregate may be called on for (p, b): the current
\* one, the current one after the admin site rewrote the Stock row, and the
\* current one after a StockLocation row was written and before its receiver ran
LedgerStates(p, b) ==
    {DB} \cup {AdminStockEdit(DB, p, b, x) : x \in 0 .. MaxQty}
         \cup {StockLocationWrite(DB, p, b, l, x) : l \in PairLocations(b), x \in 0 .. MaxQty}

\* C20: SyncAggregate is idempotent: on any ledger state, calling it twice in
\* a row yields the same Stock.quantity as calling it once and the second call
\* performs no write; it creates a Stock row only when the location sum is
\* positive and no row exists, and updates an existing row only when its
\* quantity differs from the sum.
C20_SyncIdempotent ==
    \A pb \in LedgerPairs :
       \A d \in LedgerStates(pb[1], pb[2]) :
          LET p == pb[1]
              b == pb[2]
              total == LocationTotal(d, p, b)
              once == sync_stock_total_from_locations(d, p, b)
              twice == sync_stock_total_from_locations(once, p, b)
          IN /\ twice = once
             /\ SyncWrite(once, p, b) = "none"
             /\ HasStock(once, p, b) => once.stock[<<p, b>>] = total
             /\ SyncWrite(d, p, b) = "create" <=> (~HasStock(d, p, b) /\ HasStock(once, p, b))
             /\ SyncWrite(d, p, b) = "create" => (total > 0 /\ ~HasStock(d, p, b))
             /\ SyncWrite(d, p, b) = "update" =>
                   (HasStock(d, p, b) /\ d.stock[<<p, b>>] # total /\ once # d)
             /\ SyncWrite(d, p, b) = "none" => once = d
             /\ once.sl = d.sl /\ once.mv = d.mv /\ once.tr = d.tr
             /\ \A k \in DOMAIN d.stock : k # <<p, b>> =>
                   (k \in DOMAIN once.stock /\ once.stock[k] = d.stock[k])

\* a ledger built by AddStock on which the call writes nothing, and on which
\* it updates the row once and not twice after the Stock row was rewritten
C20_Witness ==
    LET p == "P1"
        b == LedgerBranch
        d == AdminStockEdit(DB, p, b, 0)
        once == sync_stock_total_from_locations(d, p, b)
    IN /\ HasMovement("add")
       /\ Cardinality(SLKeys(DB, p, b)) = 2
       /\ OnHand(DB, p, b) > 0
       /\ SyncWrite(DB, p, b) = "none"
       /\ SyncWrite(d, p, b) = "update"
       /\ once = DB
       /\ SyncWrite(once, p, b) = "none"

\* two calls to the ledger of the same pair, both over
LedgerRace(i, j) ==
    /\ i # j /\ Done2(i, j)
    /\ proc[i].op \in LedgerOps /\ proc[j].op \in LedgerOps
    /\ proc[i].part = proc[j].part /\ proc[i].branch = proc[j].branch

\* the calls of a and then b, one after the other from the state of a's call,
\* leave the committed ledger and let through the calls that went through
SerialOrder(a, b) ==
    LET first == Handler(proc[a], proc[a].start)
        second == Handler(proc[b], first.d)
    IN /\ second.d.sl = sl
       /\ second.d.stock = stock
       /\ first.ok = proc[a].ok
       /\ second.ok = proc[b].ok

\* C21: concurrent AddStock, RemoveStock and MoveStock calls on the same
\* (part, branch) serialize: for every interleaving, the final StockLocation
\* quantities, the aggregate and the set of successful calls are those of
\* some sequential order of the calls, also when the pair has no Stock row
\* when the calls start.
C21_LedgerCallsSerialize ==
    \A i, j \in Procs :
       LedgerRace(i, j) => (SerialOrder(i, j) \/ SerialOrder(j, i))

\* the statement a request runs in this step, if it runs one
Runs(self) == proc[self].pc = "plan" /\ proc'[self].step = proc[self].step + 1
Ran(self) == proc[self].plan[proc[self].step + 1]
Acquired(self) == proc'[self].locks \ proc[self].locks
LockedTables == {"StockLocation", "Stock", "TransferRequest"}
SamePair(h, k) == h.part = k.part /\ h.branch = k.branch

\* the order of section 5: StockLocation rows, then the Stock row, then the
\* TransferRequest row
StatedRank(k) ==
    IF k.table = "StockLocation" THEN 1 ELSE IF k.table = "Stock" THEN 2 ELSE 3

\* C22 as stated: every mutating operation acquires its exclusive row locks
\* in the order (a) the StockLocation row(s), (b) the Stock aggregate row,
\* (c) for transfer transitions the TransferRequest row, and acquires each
\* lock before reading any value it depends on.
C22_Original ==
    [][\A self \in Procs :
          Runs(self) =>
             /\ \A k \in Acquired(self), h \in proc[self].locks :
                   (k.table \in LockedTables /\ h.table \in LockedTables)
                   => StatedRank(h) <= StatedRank(k)
             /\ \A rd \in Ran(self).reads : rd[1] \in proc'[self].locks]_vars

\* C22 amended: every mutating operation acquires its exclusive row locks in
\* the order (a) for transfer transitions the TransferRequest row, (b) the
\* Stock aggregate row of a pair, (c) the StockLocation rows of that pair; it
\* reads the status of its transfer only once it holds the TransferRequest
\* row, and the Stock and StockLocation quantities of a pair only once it
\* holds the Stock row of the pair.
C22_LockOrder ==
    [][\A self \in Procs :
          Runs(self) =>
             /\ \A k \in Acquired(self) :
                   /\ k.table = "TransferRequest" =>
                         \A h \in proc[self].locks : h.table \notin {"Stock", "StockLocation"}
                   /\ k.table = "Stock" =>
                         \A h \in proc[self].locks :
                            ~(h.table = "StockLocation" /\ SamePair(h, k))
                   /\ k.table = "StockLocation" =>
                         StockKey(k.part, k.branch) \in proc[self].locks
             /\ \A rd \in Ran(self).reads :
                   /\ rd[2] = "status" => rd[1] \in proc'[self].locks
                   /\ rd[2] = "quantity" =>
                         StockKey(rd[1].part, rd[1].branch) \in proc'[self].locks]_vars

\* a ConfirmReceive holds its TransferRequest row, both Stock rows and the
\* StockLocation rows of both branches, and another request waits for a row
C22_Witness ==
    \E i, j \in Procs :
       /\ i # j
       /\ proc[i].pc = "plan" /\ proc[i].step = Len(proc[i].plan)
       /\ TransferKey(1) \in proc[i].locks
       /\ StockKey("P1", "OLDIND") \in proc[i].locks
       /\ StockKey("P1", "EX18") \in proc[i].locks
       /\ \E k \in proc[i].locks : k.table = "StockLocation" /\ k.branch = "EX18"
       /\ \E k \in proc[i].locks : k.table = "StockLocation" /\ k.branch = "OLDIND"
       /\ proc[j].pc = "plan" /\ proc[j].step < Len(proc[j].plan)
       /\ proc[j].plan[proc[j].step + 1].locks \cap proc[i].locks # {}

\* who may stand at the till of PosBranch, and a cashier of another branch
PosUsers == {Admin, Cashier, [name |-> "cashE", role |-> "cashier", branch |-> "EX18"]}
AllFit(d, b, cart) ==
    \A i \in 1 .. Len(cart) :
       /\ HasStock(d, cart[i].part, b)
       /\ cart[i].qty <= SpecAvailable(d, cart[i].part, b, NoTransfer)
SalesOf(d, order) == {i \in DOMAIN d.sales : d.sales[i].order = order}

\* C23: checkout succeeds only if every cart line's quantity is at most
\* Available (on hand minus what approved, picked-up and delivered transfers
\* reserve) at checkout time; otherwise it creates no Order and no Sale and
\* deducts no stock.  So after any sequence of checkouts the on-hand quantity
\* is never negative and the units reserved for a transfer are never sold.
C23_CheckoutWithinAvailable ==
    /\ \A u \in PosUsers, cart \in Carts :
          LET r == finalize_order(DB, u, PosBranch, cart) IN
          /\ r.ok => AllFit(DB, PosBranch, cart)
          /\ ~r.ok => r.d = DB
          /\ r.ok =>
                /\ r.d.orders = orders + 1
                /\ Cardinality(SalesOf(r.d, orders + 1)) = Len(cart)
                /\ \A i \in 1 .. Len(cart) :
                      /\ OnHand(r.d, cart[i].part, PosBranch)
                           = OnHand(DB, cart[i].part, PosBranch) - cart[i].qty
                      /\ OnHand(r.d, cart[i].part, PosBranch)
                           >= SpecReserved(r.d, cart[i].part, PosBranch, NoTransfer)
    /\ \A p \in CartParts :
          /\ OnHand(DB, p, PosBranch) >= SpecReserved(DB, p, PosBranch, NoTransfer)
          /\ SpecReserved(DB, p, PosBranch, NoTransfer) >= 0
    /\ \A k \in DOMAIN sl : sl[k] >= 0

\* after one checkout, with units of P1 reserved by an approved transfer: a
\* cart of two lines that fit goes through, and a cart asking for a reserved
\* unit that is on hand is refused
C23_Witness ==
    /\ orders = 1 /\ Quiet
    /\ SpecReserved(DB, "P1", PosBranch, NoTransfer) > 0
    /\ \E cart \in Carts :
          /\ Len(cart) = 2
          /\ finalize_order(DB, Cashier, PosBranch, cart).ok
    /\ \E cart \in Carts :
          /\ Len(cart) = 2
          /\ cart[1].qty <= OnHand(DB, "P1", PosBranch)
          /\ cart[2].qty <= OnHand(DB, "P2", PosBranch)
          /\ ~finalize_order(DB, Cashier, PosBranch, cart).ok

RefundIns(d, p, b) ==
    {i \in 1 .. Len(d.mv) : d.mv[i].action = "refund_in" /\ d.mv[i].part = p /\ d.mv[i].branch = b}
RefundedSales(d, p, b) ==
    {i \in DOMAIN d.sales : d.sales[i].part = p /\ d.sales[i].branch = b /\ d.sales[i].is_refunded}
SoldSales(d, p, b) ==
    {i \in DOMAIN d.sales : d.sales[i].part = p /\ d.sales[i].branch = b /\ ~d.sales[i].is_refunded}
SaleQty(d) == [i \in DOMAIN d.sales |-> d.sales[i].quantity]
\* what is on hand and what is with customers
Net(d, p, b) == OnHand(d, p, b) + SumOver(SaleQty(d), SoldSales(d, p, b))

\* one refund call on a sale marks it, puts its quantity back and logs it
\* once; a call on a refunded sale changes nothing
RefundOnce(d, sid) ==
    LET sale == d.sales[sid]
        r == refund_sale(d, Admin, sale.branch, sid, "ok")
    IN IF sale.is_refunded THEN ~r.ok /\ r.d = d
       ELSE /\ r.ok
            /\ r.d.sales[sid].is_refunded
            /\ OnHand(r.d, sale.part, sale.branch) = OnHand(d, sale.part, sale.branch) + sale.quantity
            /\ Len(r.d.mv) = Len(d.mv) + 1
            /\ r.d.mv[Len(r.d.mv)].action = "refund_in"
            /\ r.d.mv[Len(r.d.mv)].qty = sale.quantity
            /\ r.d.mv[Len(r.d.mv)].from_location = NoLocation
            /\ r.d.mv[Len(r.d.mv)].to_location # NoLocation

RefundedOnce ==
    /\ \A sid \in DOMAIN sales :
          /\ RefundOnce(DB, sid)
          /\ RefundOnce(refund_sale(DB, Admin, sales[sid].branch, sid, "ok").d, sid)
    /\ \A p \in CartParts :
          /\ Cardinality(RefundIns(DB, p, PosBranch)) = Cardinality(RefundedSales(DB, p, PosBranch))
          /\ SumOver([i \in 1 .. Len(movements) |-> movements[i].qty], RefundIns(DB, p, PosBranch))
               = SumOver(SaleQty(DB), RefundedSales(DB, p, PosBranch))
    /\ \A i \in Procs :
          (proc[i].op = "refund" /\ proc[i].pc = "done") => sales[proc[i].sid].is_refunded
    /\ \A i, j \in Procs :
          (i # j /\ Done2(i, j) /\ proc[i].op = "refund" /\ proc[j].op = "refund"
           /\ proc[i].sid = proc[j].sid /\ ~proc[i].start.sales[proc[i].sid].is_refunded
           /\ ~proc[j].start.sales[proc[j].sid].is_refunded)
          => (proc[i].ok # proc[j].ok)

\* C24: refund is idempotent: whatever number of refund calls is made on a
\* sale of quantity q, one after the other or concurrently, the sale ends
\* marked refunded, the on-hand quantity of its (part, branch) is raised by q
\* exactly once in total, and exactly one refund_in movement is created.
C24_RefundIdempotent ==
    /\ []RefundedOnce
    /\ [][\A p \in CartParts :
             orders' = 0 \/ Net(DB, p, PosBranch)' = Net(DB, p, PosBranch)]_vars

\* two refund requests for the same sale were made before either ended; one
\* went through and the other found the sale refunded
C24_Witness ==
    \E i, j \in Procs :
       /\ i # j /\ Done2(i, j)
       /\ proc[i].op = "refund" /\ proc[j].op = "refund"
       /\ proc[i].sid = proc[j].sid
       /\ proc[i].start = proc[j].start
       /\ proc[i].ok /\ ~proc[j].ok /\ proc[j].msg = "Sale is already refunded."
       /\ sales[proc[i].sid].is_refunded
       /\ Cardinality(RefundIns(DB, sales[proc[i].sid].part, PosBranch)) = 1

\* the calls C25 names, made on the current database
AuditedCalls ==
    {transfer_approve(DB, u, a, tid, "ok") : u \in Users, a \in Branches, tid \in DOMAIN transfers}
    \cup {transfer_reject(DB, u, a, tid, "ok") : u \in Users, a \in Branches, tid \in DOMAIN transfers}
    \cup {transfer_mark_picked_up(DB, u, tid, "ok") : u \in Users, tid \in DOMAIN transfers}
    \cup {transfer_mark_delivered(DB, u, tid, "ok") : u \in Users, tid \in DOMAIN transfers}
    \cup {transfer_confirm_receive(DB, u, a, tid, "ok") :
             u \in Users, a \in Branches, tid \in DOMAIN transfers}
    \cup {finalize_order(DB, u, "OLDIND", OneLine(p, q)) : u \in Users, p \in Parts, q \in 1 .. MaxQty}
    \cup {refund_sale(DB, u, "OLDIND", sid, "ok") : u \in Users, sid \in DOMAIN sales}

\* C25: a failure of the audit-recording call made for a mutation does not
\* roll the mutation back: when recording the audit event fails after
\* Approve, Reject, MarkPickedUp, MarkDelivered, ConfirmReceive, checkout or
\* refund has applied its changes, those changes remain committed.
C25_AuditFailureKeepsMutation ==
    \A r \in AuditedCalls :
       r.ok => Audited(DB, r, "failed").d = r.d

\* the rows a step appends to StockMovement, and what they carry into (+)
\* and out of (-) location l of (p, b)
NewRows == SubSeq(movements', Len(movements) + 1, Len(movements'))
Marker(m) == m.action = "assistant_transfer_request"
Flow(rows, p, b, l) ==
    SumOver([i \in 1 .. Len(rows) |->
               IF rows[i].part = p /\ rows[i].branch = b
               THEN (IF rows[i].to_location = l THEN rows[i].qty ELSE 0)
                    - (IF rows[i].from_location = l THEN rows[i].qty ELSE 0)
               ELSE 0], 1 .. Len(rows))
SLAfter(p, b, l) == IF <<p, b, l>> \in DOMAIN sl' THEN sl'[<<p, b, l>>] ELSE 0

C27_WritesOnlyOnConfirm ==
    [][\A self \in Sessions :
         LET me == proc[self]
             now == proc'[self]
         IN /\ me.pc # "pending" /\ now # me => tables' = tables
            /\ me.pc = "pending" /\ now # me /\ tables' # tables =>
                  /\ now.msg \in {"Done", "Could not apply action"}
                  /\ \E o \in AuditOutcomes :
                        DB' = _assistant_execute_pending_action(DB, me, o).d
            /\ me.pc = "pending" /\ now.msg = "Pending action canceled." =>
                  now.pc = "idle" /\ tables' = tables
            /\ me.pc = "pending" /\ now.msg = "You have a pending write action." =>
                  /\ tables' = tables
                  /\ [now EXCEPT !.msg = ""] = [me EXCEPT !.msg = ""]]_vars

C27_Witness ==
    /\ \E self \in Sessions : proc[self].msg = "Pending action canceled."
    /\ \E i \in 1 .. Len(movements) : movements[i].action = "assistant_add"
    /\ \E i \in 1 .. Len(movements) : Marker(movements[i])

\* C28: CreateTransfer called with a blank or whitespace-only reason/notes
\* creates no TransferRequest, through the general transfer form and through
\* the create-from-stock form.
C28_BlankNotesCreateNothing ==
    \A u \in Users, p \in Parts, q \in 1 .. MaxQty, t \in Branches, notes \in BlankReasons :
       /\ \A a \in ActiveBranches(u) :
             Refused(transfer_create(DB, u, a, p, q, "OLDIND", t, NoUser, notes))
       /\ Refused(transfer_create_from_stock(DB, u, p, "OLDIND", q, t, notes))

\* C29: in every reachable state of a transfer that only Create and the
\* lifecycle calls have written, reserved_quantity equals quantity exactly
\* when the status is approved, picked_up or delivered, and is 0 when the
\* status is requested, rejected or received.
C29_ReservedFollowsStatus ==
    \A tid \in DOMAIN transfers :
       LET t == transfers[tid] IN
       /\ t.status \in {"requested", "approved", "picked_up", "delivered",
                        "rejected", "received"}
       /\ t.reserved_quantity = t.quantity <=>
             t.status \in {"approved", "picked_up", "delivered"}
       /\ t.status \in {"requested", "rejected", "received"} => t.reserved_quantity = 0

C29_Witness ==
    \E i, j \in DOMAIN transfers :
       /\ transfers[i].status = "received" /\ transfers[i].reserved_quantity = 0
       /\ transfers[j].status = "delivered"
       /\ transfers[j].reserved_quantity = transfers[j].quantity

C31_NoDeadlock ==
    /\ [](\A i, j \in Procs : ~(WaitsFor(i, j) /\ WaitsFor(j, i)))
    /\ \A self \in Procs :
          proc[self].pc = "plan" ~> proc[self].pc \in {"done", "aborted"}

\* a pair of legacy data: a positive aggregate and no StockLocation row
Legacy(d, p, b) == HasStock(d, p, b) /\ d.stock[<<p, b>>] > 0 /\ SLKeys(d, p, b) = {}
\* the pair holds total, location by location as rows gives it, and the
\* aggregate is the sum of the locations
Holds(d, p, b, total, rows) ==
    /\ OnHand(d, p, b) = total
    /\ LocationTotal(d, p, b) = total
    /\ \A l \in DOMAIN rows : SLQty(d, p, b, l) = rows[l]
\* a sale of q of (p, b) that the database holds besides its rows
WithSale(d, p, b, q) ==
    [d EXCEPT !.sales = Put(d.sales, Cardinality(DOMAIN d.sales) + 1, Sale(1, p, b, q))]

\* C32: on a (part, branch) with a positive aggregate Q and no StockLocation
\* row, the first AddStock, RemoveStock, MoveStock, checkout, refund or
\* ConfirmReceive that goes through first puts Q into one row at the default
\* location of the branch: AddStock(q) succeeds and leaves Q + q, RemoveStock
\* (q <= Q, no location named) succeeds and leaves Q - q, MoveStock out of the
\* default location keeps Q, checkout and the source of ConfirmReceive leave
\* Q - q, refund and the destination of ConfirmReceive leave Q + q, and the
\* aggregate is the sum of the locations afterwards.
C32_LegacyQuantityPreserved ==
    \A p \in Parts, b \in Branches :
       Legacy(DB, p, b) =>
          LET Q == stock[<<p, b>>]
              dflt == get_or_create_default_location(b)
              other == <<b, "A3">>
          IN /\ \A q \in 1 .. MaxQty :
                  LET a == add_stock_to_location(DB, p, b, q, NoLocation, "add")
                      o == add_stock_to_location(DB, p, b, q, other, "add")
                      r == remove_stock_from_locations(DB, p, b, q, NoLocation, "remove")
                      m == move_stock_between_locations(DB, p, b, q, dflt, other, "move")
                      c == finalize_order(DB, Admin, b, OneLine(p, q))
                      f == refund_sale(WithSale(DB, p, b, q), Admin, b,
                                       Cardinality(DOMAIN sales) + 1, "ok")
                  IN /\ a.ok /\ Holds(a.d, p, b, Q + q, dflt :> Q + q)
                     /\ o.ok /\ Holds(o.d, p, b, Q + q, (dflt :> Q) @@ (other :> q))
                     /\ q <= Q => r.ok /\ Holds(r.d, p, b, Q - q, dflt :> Q - q)
                     /\ q <= Q => m.ok /\ Holds(m.d, p, b, Q, (dflt :> Q - q) @@ (other :> q))
                     /\ q <= SpecAvailable(DB, p, b, NoTransfer) =>
                           c.ok /\ Holds(c.d, p, b, Q - q, dflt :> Q - q)
                     /\ f.ok /\ Holds(f.d, p, b, Q + q, dflt :> Q + q)
             /\ \A tid \in DOMAIN transfers :
                  LET t == transfers[tid]
                      r == transfer_confirm_receive(DB, Admin, t.destination_branch, tid, "ok")
                  IN t.part = p /\ t.status = "delivered" /\ r.ok =>
                       /\ t.source_branch = b =>
                             Holds(r.d, p, b, Q - t.quantity, dflt :> Q - t.quantity)
                       /\ t.destination_branch = b =>
                             Holds(r.d, p, b, Q + t.quantity, dflt :> Q + t.quantity)

\* a delivered transfer between two pairs of legacy data whose receipt goes
\* through
C32_Witness ==
    \E tid \in DOMAIN transfers :
       LET t == transfers[tid] IN
       /\ t.status = "delivered"
       /\ Legacy(DB, t.part, t.source_branch)
       /\ Legacy(DB, t.part, t.destination_branch)
       /\ transfer_confirm_receive(DB, Admin, t.destination_branch, tid, "ok").ok
       /\ finalize_order(DB, Admin, t.destination_branch, OneLine(t.part, 1)).ok

\* C33: a step that takes a transfer to picked_up or to delivered changes
\* nothing but the transfer's status and driver: every Stock and StockLocation
\* row and the movement log are as before, no transfer's quantity or
\* reserved_quantity changes, no other transfer changes, and the available
\* quantity of every (part, branch) is the same before and after.
C33_CustodyOnly ==
    [][\A tid \in DOMAIN transfers :
          (/\ tid \in DOMAIN transfers'
           /\ transfers'[tid].status # transfers[tid].status
           /\ transfers'[tid].status \in {"picked_up", "delivered"})
          => /\ stock' = stock /\ sl' = sl /\ movements' = movements
             /\ DOMAIN transfers' = DOMAIN transfers
             /\ \A i \in DOMAIN transfers :
                   /\ transfers'[i].reserved_quantity = transfers[i].reserved_quantity
                   /\ transfers'[i].quantity = transfers[i].quantity
                   /\ i # tid => transfers'[i] = transfers[i]
             /\ \A p \in Parts, b \in Branches :
                   /\ SpecAvailable(DB, p, b, NoTransfer)' = SpecAvailable(DB, p, b, NoTransfer)
                   /\ HasStock(DB, p, b) =>
                         _available_stock_quantity(DB, p, b, NoTransfer)'
                            = _available_stock_quantity(DB, p, b, NoTransfer)]_vars

\* a delivered transfer with a recorded driver still holds its reservation,
\* and the source's available quantity is the on-hand less that reservation
C33_Witness ==
    \E tid \in DOMAIN transfers :
       LET t == transfers[tid] IN
       /\ t.status = "delivered" /\ t.driver # NoUser
       /\ t.reserved_quantity = t.quantity
       /\ OnHand(DB, t.part, t.source_branch) > t.quantity
       /\ SpecAvailable(DB, t.part, t.source_branch, NoTransfer)
             = OnHand(DB, t.part, t.source_branch) - t.quantity

\* C34: every step that takes a transfer from picked_up to delivered is the
\* atomic block of a MarkDelivered request whose caller is an admin or is the
\* driver recorded on the transfer when the step is taken, whatever pickup
\* request was served between the call and its atomic block.
C34_DeliveredByRecordedDriver ==
    [][\A tid \in DOMAIN transfers :
          (transfers[tid].status = "picked_up" /\ transfers'[tid].status = "delivered")
          => \E self \in Procs :
                /\ proc[self].pc = "begin" /\ proc[self].op = "deliver"
                /\ proc[self].tid = tid /\ proc'[self].pc = "idle"
                /\ \/ is_admin_user(proc[self].user)
                   \/ proc[self].user.name = transfers[tid].driver]_vars

\* C35: from an empty ledger, under every sequence of AddStock, RemoveStock and
\* MoveStock: each step leaves the movements written so far as they were and
\* only appends to them, a call that fails appends none, and the quantity of
\* each (part, branch, location) equals the movement quantities into that
\* location less the movement quantities out of it.
C35_ReplayTrail ==
    /\ [][/\ Len(movements') >= Len(movements)
          /\ SubSeq(movements', 1, Len(movements)) = movements]_vars
    /\ [](\A p \in Parts, q \in Quantities, f, t \in LedgerLocations :
            LET add == add_stock_to_location(DB, p, LedgerBranch, q, t, "add")
                rem == remove_stock_from_locations(DB, p, LedgerBranch, q, f, "remove")
                move == move_stock_between_locations(DB, p, LedgerBranch, q, f, t, "move")
            IN /\ ~add.ok => add.d.mv = movements
               /\ ~rem.ok => rem.d.mv = movements
               /\ (f # NoLocation /\ t # NoLocation /\ ~move.ok) => move.d.mv = movements)
    /\ [](\A p \in Parts, b \in Branches, l \in LedgerLocations \ {NoLocation} :
            SLQty(DB, p, b, l) = Flow(movements, p, b, l))

\* the log holds an add, a move and a remove, a location holds stock that the
\* log accounts for, and a removal of more than it holds fails after its row
\* was found
C35_Witness ==
    /\ HasMovement("add") /\ HasMovement("move") /\ HasMovement("remove")
    /\ \E p \in Parts, l \in LedgerLocations \ {NoLocation} :
          /\ SLQty(DB, p, LedgerBranch, l) > 0
          /\ SLQty(DB, p, LedgerBranch, l) < MaxQty
          /\ ~remove_stock_from_locations(DB, p, LedgerBranch, MaxQty, l, "remove").ok

\* the databases a checkout may find: the reachable one, and the ones the
\* admin site's Stock form makes of it
AfterStockEdit ==
    {DB} \cup {AdminStockEdit(DB, p, PosBranch, x) :
                  p \in {c \in CartParts : HasStock(DB, c, PosBranch)}, x \in 1 .. MaxQty + 1}
\* a cart add_to_cart can have filled from rows of b
Fillable(d, b, cart) == \A i \in 1 .. Len(cart) : HasStock(d, cart[i].part, b)
\* the first line of the cart is deducted and the deduction of the second fails
FailsAtSecondLine(d, cart) ==
    /\ Len(cart) = 2
    /\ \A i \in 1 .. 2 : HasStock(d, cart[i].part, PosBranch) /\ LineFits(d, PosBranch, cart[i])
    /\ remove_stock_from_locations(SeedIfStockRow(d, cart[1].part, PosBranch), cart[1].part,
                                   PosBranch, cart[1].qty, NoLocation, "sale_out").ok
    /\ ~finalize_order(d, Cashier, PosBranch, cart).ok

\* C36 as stated: a checkout that does not commit, the one whose deduction
\* fails at a later line included, leaves no Order, Sale, movement or quantity
\* change, and the cart is empty after a checkout request only when that
\* checkout committed.
C36_Original ==
    \A d \in AfterStockEdit, u \in PosUsers, cart \in Carts :
       \A active \in ActiveBranches(u) :
          Fillable(d, PosBranch, cart) =>
             LET r == CheckoutRequest(d, u, active, PosBranch, cart) IN
             /\ ~r.ok => r.d = d
             /\ r.cart = <<>> => r.ok

\* C36: a checkout that does not commit, the one whose deduction fails at a
\* later line after earlier lines were deducted included, leaves no Order, no
\* Sale, no movement and no Stock or StockLocation change; a checkout that
\* commits empties the cart; one that does not commit leaves the cart as it
\* was, except that a checkout refused because Stock rows of the cart are not
\* available to the account in the active branch drops exactly those lines
\* (all of them when none is available).
C36_AllOrNothing ==
    \A d \in AfterStockEdit, u \in PosUsers, cart \in Carts :
       \A active \in ActiveBranches(u) :
          Fillable(d, PosBranch, cart) =>
             LET r == CheckoutRequest(d, u, active, PosBranch, cart)
                 Available(line) == /\ active = PosBranch
                                    /\ HasStock(d, line.part, active)
                                    /\ InStockScope(u, active)
             IN /\ ~r.ok => r.d = d
                /\ r.ok => r.cart = <<>> /\ r.d.orders = d.orders + 1
                /\ ~r.ok => r.cart = SelectSeq(cart, Available)
                /\ (FailsAtSecondLine(d, cart) /\ active = PosBranch)
                      => r.cart = cart /\ ~r.ok /\ r.msg = InsufficientStock

\* after a stock edit a cart of two lines that both fit is deducted at its
\* first line and fails at its second, and an admin whose active branch is
\* not the cart's has every line dropped
C36_Witness ==
    /\ \E d \in AfterStockEdit \ {DB}, cart \in Carts : FailsAtSecondLine(d, cart)
    /\ \E cart \in Carts :
          /\ Len(cart) = 2 /\ Fillable(DB, PosBranch, cart)
          /\ CheckoutRequest(DB, Admin, "EX18", PosBranch, cart).cart = <<>>
    /\ orders > 0

\* C37: a message of a session with a pending write action that changes a
\* Stock, StockLocation, StockMovement or TransferRequest row clears the
\* pending action, so that the action is applied at most once; the pending
\* action survives a confirm only when no such row changed.
C37_AppliedAtMostOnce ==
    [][\A self \in Sessions :
         (proc[self].pc = "pending" /\ proc'[self].pc = "pending")
         => /\ stock' = stock /\ sl' = sl
            /\ movements' = movements /\ transfers' = transfers]_vars

\* C38: in every state of a POS session, for every stocked item: a scan of it
\* that is not a repeat (another item was scanned last, or the repeat window
\* has passed) adds its quantity to the cart when the quantity is available;
\* the same scan repeated within the window adds nothing and asks for
\* confirmation; repeated again it adds the quantity; repeated again it asks
\* again.  An undo that follows puts the cart back to what it was before the
\* most recent scan that changed it, and no undo leaves a cart line of
\* quantity 0 or less.
C38_ScanRepeatGuard ==
    \A self \in Sessions :
       LET s0 == proc[self]
           Undo(s) == scan_dispatch(DB, s, Cashier, PosBranch, "undo", "none", 1, FALSE)
       IN /\ \A k \in DOMAIN Undo(s0).cart : Undo(s0).cart[k] > 0
          /\ \A k \in DOMAIN s0.cart : s0.cart[k] > 0
          /\ \A p \in CartParts, q \in 1 .. MaxQty, recent \in BOOLEAN :
                LET k == <<p, PosBranch>>
                    Scan(s, r) == scan_dispatch(DB, s, Cashier, PosBranch, "scan", p, q, r)
                    Fits(s) == CartQty(s.cart, k) + q
                                  <= _available_stock_quantity(DB, p, PosBranch, NoTransfer)
                    Adds(s, t) == /\ Fits(s) => t.cart = CartSet(s.cart, k, CartQty(s.cart, k) + q)
                                  /\ ~Fits(s) => t.cart = s.cart
                    Asks(s, t) == t.cart = s.cart /\ t.msg = ScanConfirmMsg
                    \* the undo after t puts back the cart s that the scan changed
                    Undoes(s, t) == t.cart # s.cart =>
                                       /\ Undo(t).cart = s.cart
                                       /\ CartQty(Undo(t).cart, k) = CartQty(t.cart, k) - q
                    s1 == Scan(s0, recent)
                    s2 == Scan(s1, TRUE)
                    s3 == Scan(s2, TRUE)
                    s4 == Scan(s3, TRUE)
                IN (/\ HasStock(DB, p, PosBranch)
                    /\ s0.pos_scan_repeat_guard.token # k \/ ~recent)
                   => /\ Adds(s0, s1) /\ Asks(s1, s2) /\ Adds(s2, s3) /\ Asks(s3, s4)
                      /\ Undoes(s0, s1) /\ Undoes(s0, s2)
                      /\ Undoes(s2, s3) /\ Undoes(s2, s4)

\* a scan, its repeat, the confirming repeat and an undo: one unit of the two
\* that were added is left, and one scan is left to undo
C38_Witness ==
    \E self \in Sessions, p \in CartParts :
       LET s == proc[self] IN
       /\ s.msg = "Last POS scan undone."
       /\ s.pos_scan_repeat_guard = [token |-> <<p, PosBranch>>, awaiting_confirm |-> FALSE]
       /\ s.cart = (<<p, PosBranch>> :> 1)
       /\ s.pos_scan_undo = <<[stock_id |-> <<p, PosBranch>>, delta |-> 1]>>
       /\ OnHand(DB, p, PosBranch) = MaxQty

\* C39: in every step the status of a ticket either stays what it is or goes
\* one step forward along new, open, in_progress, fixed; a request for any
\* other change leaves it unchanged, and the status of a fixed ticket never
\* changes.
C39_OneStepForward ==
    [][\A id \in DOMAIN tickets :
          \/ tickets'[id].status = tickets[id].status
          \/ <<tickets[id].status, tickets'[id].status>>
                \in {<<"new", "open">>, <<"open", "in_progress">>, <<"in_progress", "fixed">>}]_vars

\* C5 as stated: while a reservation is held on (part, branch), whatever
\* ledger operation ran in between, Available + ReservedQuantity equals
\* Stock.quantity.
C5_Original ==
    \A p \in Parts, b \in Branches : HeldOn(DB, p, b) => Balanced(DB, p, b)

DirectRemoveStep ==
    /\ Len(movements') > Len(movements)
    /\ movements'[Len(movements')].action = "remove"

\* C5 amended: a successful Approve establishes Available + ReservedQuantity
\* = Stock.quantity for the source, and every call other than a direct
\* RemoveStock keeps it while a reservation is held.
C5_BalancedUnlessDirectRemove ==
    /\ [](\A tid \in DOMAIN transfers, u \in Users, reason \in Reasons :
            \A a \in ActiveBranches(u) :
               LET r == transfer_approve(DB, u, a, tid, reason) IN
               r.ok => Balanced(r.d, transfers[tid].part, transfers[tid].source_branch))
    /\ [][\A p \in Parts, b \in Branches :
            (HeldOn(DB, p, b) /\ Balanced(DB, p, b) /\ ~DirectRemoveStep /\ HeldOn(DB', p, b))
               => Balanced(DB', p, b)]_vars

\* a reservation is held, a sale went through, and what is left on hand is
\* all reserved, so that the next sale is refused
C5_Witness ==
    /\ HeldOn(DB, "P1", "OLDIND")
    /\ Balanced(DB, "P1", "OLDIND")
    /\ HasMovement("sale_out")
    /\ OnHand(DB, "P1", "OLDIND") > 0
    /\ SpecReserved(DB, "P1", "OLDIND", NoTransfer) = OnHand(DB, "P1", "OLDIND")
    /\ ~finalize_order(DB, Admin, "OLDIND", OneLine("P1", 1)).ok

\* C6: the status of a transfer changes only along the six legal edges, and a
\* lifecycle call made in a status from which it is not legal is refused and
\* leaves the transfer, the ledger and the movement log unchanged.
LegalEdges == { <<"requested", "approved">>, <<"approved", "picked_up">>,
                <<"picked_up", "delivered">>, <<"delivered", "received">>,
                <<"requested", "rejected">>, <<"approved", "rejected">> }

C6_IllegalCallRefused ==
    \A tid \in DOMAIN transfers, u \in Users, reason \in Reasons :
       \A a \in ActiveBranches(u) :
          LET st == transfers[tid].status IN
          /\ st # "requested" => Refused(transfer_approve(DB, u, a, tid, reason))
          /\ st \notin {"requested", "approved"} => Refused(transfer_reject(DB, u, a, tid, reason))
          /\ st # "approved" => Refused(transfer_mark_picked_up(DB, u, tid, reason))
          /\ st # "picked_up" => Refused(transfer_mark_delivered(DB, u, tid, reason))
          /\ st # "delivered" => Refused(transfer_confirm_receive(DB, u, a, tid, reason))

C6_OnlyLegalTransitions ==
    /\ [][/\ \A tid \in DOMAIN transfers :
               /\ tid \in DOMAIN transfers'
               /\ transfers'[tid].status # transfers[tid].status
                    => <<transfers[tid].status, transfers'[tid].status>> \in LegalEdges
          /\ \A tid \in DOMAIN transfers' \ DOMAIN transfers :
               transfers'[tid].status = "requested"]_vars
    /\ []C6_IllegalCallRefused

C6_Witness ==
    \E tid \in DOMAIN transfers :
       /\ transfers[tid].status = "picked_up"
       /\ Refused(transfer_reject(DB, Admin, transfers[tid].source_branch, tid, "ok"))
       /\ Refused(transfer_approve(DB, Admin, transfers[tid].source_branch, tid, "ok"))

\* C7: received and rejected are terminal.  Once a transfer is rejected or
\* received its row never changes again, its reserved_quantity is 0, every
\* lifecycle call on it is refused, and so is a second Approve after the first.
Terminal == {"received", "rejected"}

C7_CallsOnTerminalRefused ==
    \A tid \in DOMAIN transfers, u \in Users, reason \in Reasons :
       \A a \in ActiveBranches(u) :
          transfers[tid].status \in Terminal =>
             /\ transfers[tid].reserved_quantity = 0
             /\ Refused(transfer_approve(DB, u, a, tid, reason))
             /\ Refused(transfer_approve(transfer_approve(DB, u, a, tid, reason).d,
                                         u, a, tid, reason))
             /\ Refused(transfer_reject(DB, u, a, tid, reason))
             /\ Refused(transfer_mark_picked_up(DB, u, tid, reason))
             /\ Refused(transfer_mark_delivered(DB, u, tid, reason))
             /\ Refused(transfer_confirm_receive(DB, u, a, tid, reason))

C7_TerminalIsForever ==
    /\ [][\A tid \in DOMAIN transfers :
            transfers[tid].status \in Terminal
               => tid \in DOMAIN transfers' /\ transfers'[tid] = transfers[tid]]_vars
    /\ []C7_CallsOnTerminalRefused

C7_Witness ==
    /\ \E tid \in DOMAIN transfers :
          transfers[tid].status = "rejected" /\ transfers[tid].approved_at
    /\ \E tid \in DOMAIN transfers : transfers[tid].status = "received"

\* C8: Approve of a requested transfer by a permitted caller with a non-blank
\* reason succeeds exactly when the source Stock row exists and Available,
\* not counting this transfer, is at least the transfer quantity.  On success
\* the row becomes approved with reserved_quantity = quantity and no rejection
\* fields, and nothing else changes; on failure nothing changes at all.
C8_ApproveIffAvailable ==
    \A tid \in DOMAIN transfers, u \in Users, reason \in Reasons :
       \A a \in ActiveBranches(u) :
          LET t == transfers[tid]
              r == transfer_approve(DB, u, a, tid, reason)
          IN (t.status = "requested" /\ MayDecide(u, a, t, reason)) =>
               /\ r.ok <=> /\ HasStock(DB, t.part, t.source_branch)
                           /\ SpecAvailable(DB, t.part, t.source_branch, tid) >= t.quantity
               /\ r.ok => /\ r.d.tr[tid] = [t EXCEPT !.status = "approved",
                                                     !.reserved_quantity = t.quantity,
                                                     !.approved_at = TRUE,
                                                     !.rejection_reason = ""]
                          /\ OthersUnchanged(r.d, tid)
                          /\ LedgerUnchanged(r.d)
               /\ ~r.ok => /\ r.d = DB
                           /\ t.status = "requested" /\ t.reserved_quantity = 0

\* one transfer holds a reservation, and a second one on the same source is
\* refused although the on-hand quantity alone would cover it
C8_Witness ==
    \E i, j \in DOMAIN transfers :
       /\ i # j
       /\ transfers[i].status = "approved"
       /\ transfers[i].reserved_quantity = transfers[i].quantity
       /\ transfers[j].status = "requested"
       /\ transfers[j].source_branch = transfers[i].source_branch
       /\ OnHand(DB, transfers[j].part, transfers[j].source_branch) >= transfers[j].quantity
       /\ Refused(transfer_approve(DB, Admin, transfers[j].source_branch, j, "ok"))

\* C9: Reject by a permitted caller with a non-blank reason succeeds from
\* requested and approved and from no other status; it sets rejected and
\* reserved_quantity 0 and touches nothing else, so Available for the source
\* is what it is without this transfer's reservation; an Approve followed by
\* its Reject leaves Available and on-hand as they were before the Approve.
C9_RejectReleases ==
    \A tid \in DOMAIN transfers, u \in Users, reason \in Reasons :
       \A a \in ActiveBranches(u) :
          LET t == transfers[tid]
              r == transfer_reject(DB, u, a, tid, reason)
              ap == transfer_approve(DB, u, a, tid, reason)
              back == transfer_reject(ap.d, u, a, tid, reason)
          IN MayDecide(u, a, t, reason) =>
               /\ r.ok <=> t.status \in {"requested", "approved"}
               /\ r.ok => /\ r.d.tr[tid] = [t EXCEPT !.status = "rejected",
                                                     !.reserved_quantity = 0,
                                                     !.rejection_reason = Strip(reason)]
                          /\ OthersUnchanged(r.d, tid)
                          /\ LedgerUnchanged(r.d)
                          /\ SpecAvailable(r.d, t.part, t.source_branch, NoTransfer)
                               = SpecAvailable(DB, t.part, t.source_branch, tid)
               /\ ~r.ok => r.d = DB
               /\ ap.ok => /\ back.ok
                           /\ SpecAvailable(back.d, t.part, t.source_branch, NoTransfer)
                                = SpecAvailable(DB, t.part, t.source_branch, NoTransfer)
                           /\ OnHand(back.d, t.part, t.source_branch)
                                = OnHand(DB, t.part, t.source_branch)

\* a transfer that was approved and then rejected; nothing is reserved on its
\* source any more
C9_Witness ==
    \E tid \in DOMAIN transfers :
       /\ transfers[tid].status = "rejected"
       /\ transfers[tid].approved_at
       /\ transfers[tid].reserved_quantity = 0
       /\ OnHand(DB, "P1", transfers[tid].source_branch) > 0
       /\ SpecAvailable(DB, "P1", transfers[tid].source_branch, NoTransfer)
            = OnHand(DB, "P1", transfers[tid].source_branch)

\* what a successful ConfirmReceive of transfer tid made of the database,
\* but for the quantity at the destination's default location
ReceiveMoves(r, tid) ==
    LET t == transfers[tid]
        outs == {i \in Len(movements) + 1 .. Len(r.d.mv) : r.d.mv[i].action = "transfer_out"}
    IN /\ OnHand(r.d, t.part, t.source_branch) = OnHand(DB, t.part, t.source_branch) - t.quantity
       /\ OnHand(r.d, t.part, t.destination_branch)
            = OnHand(DB, t.part, t.destination_branch) + t.quantity
       /\ r.d.tr[tid] = [t EXCEPT !.status = "received", !.reserved_quantity = 0]
       /\ OthersUnchanged(r.d, tid)
       \* nothing of any other (part, branch) changes
       /\ \A p \in Parts, b \in Branches \ {t.source_branch, t.destination_branch} :
             /\ OnHand(r.d, p, b) = OnHand(DB, p, b)
             /\ HasStock(r.d, p, b) = HasStock(DB, p, b)
             /\ \A c \in Codes : /\ (<<p, b, <<b, c>>>> \in DOMAIN r.d.sl)
                                     = (<<p, b, <<b, c>>>> \in DOMAIN sl)
                                 /\ SLQty(r.d, p, b, <<b, c>>) = SLQty(DB, p, b, <<b, c>>)
       \* the log grows by the drains of the source and one credit
       /\ SubSeq(r.d.mv, 1, Len(movements)) = movements
       /\ Len(r.d.mv) = Len(movements) + Cardinality(outs) + 1
       /\ SumOver([i \in 1 .. Len(r.d.mv) |-> r.d.mv[i].qty], outs) = t.quantity
       /\ \A i \in outs : r.d.mv[i].branch = t.source_branch /\ r.d.mv[i].qty > 0
       /\ r.d.mv[Len(r.d.mv)] = Movement(t.part, t.destination_branch, t.quantity, "transfer_in",
                                         NoLocation,
                                         get_or_create_default_location(t.destination_branch))
       \* the source's locations only go down, none below zero
       /\ \A c \in Codes :
             /\ SLQty(r.d, t.part, t.source_branch, <<t.source_branch, c>>) >= 0
             /\ SLQty(r.d, t.part, t.source_branch, <<t.source_branch, c>>)
                  <= Max(SLQty(DB, t.part, t.source_branch, <<t.source_branch, c>>),
                         IF SLKeys(DB, t.part, t.source_branch) = {}
                         THEN OnHand(DB, t.part, t.source_branch) ELSE 0)
       \* at the destination only the default location changes
       /\ \A c \in Codes \ {DEFAULT_LOCATION_CODE} :
             SLQty(r.d, t.part, t.destination_branch, <<t.destination_branch, c>>)
               = SLQty(DB, t.part, t.destination_branch, <<t.destination_branch, c>>)

DestinationDefault(d, t) ==
    SLQty(d, t.part, t.destination_branch, get_or_create_default_location(t.destination_branch))

\* C10 as stated: a successful ConfirmReceive of quantity q takes q from the
\* source aggregate, adds exactly q to the destination's default-location
\* quantity and to the destination aggregate, sets received and
\* reserved_quantity 0 and changes no other (part, branch).
C10_Original ==
    \A tid \in DOMAIN transfers, u \in Users, reason \in Reasons :
       \A a \in ActiveBranches(u) :
          LET r == transfer_confirm_receive(DB, u, a, tid, reason) IN
          r.ok => /\ transfers[tid].status = "delivered"
                  /\ ReceiveMoves(r, tid)
                  /\ DestinationDefault(r.d, transfers[tid])
                       = DestinationDefault(DB, transfers[tid]) + transfers[tid].quantity

\* C10 amended: as stated, except that a destination with an aggregate and no
\* StockLocation row is first seeded, so that its default location ends at the
\* former aggregate plus q.
C10_ReceiveMovesExactly ==
    \A tid \in DOMAIN transfers, u \in Users, reason \in Reasons :
       \A a \in ActiveBranches(u) :
          LET r == transfer_confirm_receive(DB, u, a, tid, reason)
              t == transfers[tid]
          IN
          r.ok => /\ t.status = "delivered"
                  /\ ReceiveMoves(r, tid)
                  /\ DestinationDefault(r.d, t)
                       = t.quantity
                         + (IF SLKeys(DB, t.part, t.destination_branch) = {}
                            THEN OnHand(DB, t.part, t.destination_branch)
                            ELSE DestinationDefault(DB, t))

C10_Witness ==
    \E tid \in DOMAIN transfers :
       /\ transfers[tid].status = "received"
       /\ transfers[tid].reserved_quantity = 0
       /\ HasMovement("transfer_out") /\ HasMovement("transfer_in")
       /\ DestinationDefault(DB, transfers[tid]) > transfers[tid].quantity

=============================================================================
